---- MODULE Spec2Model ----
(***************************************************************************)
(* A model of the OFD -> PDF converter (huuhuybn/miconvert-ofd-to-pdf).    *)
(*                                                                         *)
(* One Node.js process makes up to MaxCalls calls of the public API        *)
(* (convert, parse).  A call runs the parser over an archive and, for      *)
(* convert, the render orchestrator: font pre-loading, font resolution,    *)
(* the page / layer / object loop, the watermark, the save and the         *)
(* standard-font fallback.  Module-level variables of the code             *)
(* (fontkitRegistered, cachedCJKFontPath, cachedCJKFontBytes,              *)
(* _brandingShown) live as long as the process and are shared by calls.    *)
(*                                                                         *)
(* A JavaScript string is a tuple of code points, each a one-character     *)
(* string; a code point outside ASCII is written "U+XXXX".  The empty      *)
(* tuple is the empty string, and also stands for an absent (undefined)    *)
(* string attribute: both are falsy in the code.                           *)
(***************************************************************************)
EXTENDS Integers, Sequences, FiniteSets, TLC

\* ------------------------------------------------------------------ bounds

\* API calls made by one process.
MaxCalls == 2
\* Objects whose drawing throws, per render pass.
MaxObjectFailures == 2
\* Built-in fonts whose embedding throws, per font-resolution pass.
MaxStdEmbedFailures == 1

\* ----------------------------------------------------------------- strings

Min(S) == CHOOSE x \in S : \A y \in S : x <= y

LowerChar(c) ==
    CASE c = "A" -> "a" [] c = "B" -> "b" [] c = "C" -> "c" [] c = "D" -> "d"
      [] c = "E" -> "e" [] c = "F" -> "f" [] c = "G" -> "g" [] c = "H" -> "h"
      [] c = "I" -> "i" [] c = "J" -> "j" [] c = "K" -> "k" [] c = "L" -> "l"
      [] c = "M" -> "m" [] c = "N" -> "n" [] c = "O" -> "o" [] c = "P" -> "p"
      [] c = "Q" -> "q" [] c = "R" -> "r" [] c = "S" -> "s" [] c = "T" -> "t"
      [] c = "U" -> "u" [] c = "V" -> "v" [] c = "W" -> "w" [] c = "X" -> "x"
      [] c = "Y" -> "y" [] c = "Z" -> "z" [] OTHER -> c

UpperChar(c) ==
    CASE c = "a" -> "A" [] c = "b" -> "B" [] c = "c" -> "C" [] c = "d" -> "D"
      [] c = "e" -> "E" [] c = "f" -> "F" [] c = "g" -> "G" [] c = "h" -> "H"
      [] c = "i" -> "I" [] c = "j" -> "J" [] c = "k" -> "K" [] c = "l" -> "L"
      [] c = "m" -> "M" [] c = "n" -> "N" [] c = "o" -> "O" [] c = "p" -> "P"
      [] c = "q" -> "Q" [] c = "r" -> "R" [] c = "s" -> "S" [] c = "t" -> "T"
      [] c = "u" -> "U" [] c = "v" -> "V" [] c = "w" -> "W" [] c = "x" -> "X"
      [] c = "y" -> "Y" [] c = "z" -> "Z" [] OTHER -> c

\* String.prototype.toLowerCase / toUpperCase
toLowerCase(s) == [i \in 1..Len(s) |-> LowerChar(s[i])]
toUpperCase(s) == [i \in 1..Len(s) |-> UpperChar(s[i])]

\* String.prototype.includes / startsWith / endsWith
includes(s, t) ==
    \E i \in 1..(Len(s) - Len(t) + 1) : SubSeq(s, i, i + Len(t) - 1) = t
startsWith(s, t) == Len(s) >= Len(t) /\ SubSeq(s, 1, Len(t)) = t
endsWith(s, t) ==
    Len(s) >= Len(t) /\ SubSeq(s, Len(s) - Len(t) + 1, Len(s)) = t

\* String.prototype.lastIndexOf for one code point, 1-based; 0 when absent.
lastIndexOf(s, c) ==
    IF \E i \in 1..Len(s) : s[i] = c
    THEN CHOOSE i \in 1..Len(s) :
            s[i] = c /\ \A j \in (i + 1)..Len(s) : s[j] # c
    ELSE 0

\* String.prototype.split on one code point: "a//b" gives "a", "", "b".
RECURSIVE split(_, _)
split(s, sep) ==
    IF \E i \in 1..Len(s) : s[i] = sep
    THEN LET i == Min({k \in 1..Len(s) : s[k] = sep})
         IN  <<SubSeq(s, 1, i - 1)>> \o split(SubSeq(s, i + 1, Len(s)), sep)
    ELSE <<s>>

\* Array.prototype.join
RECURSIVE join(_, _)
join(parts, sep) ==
    IF Len(parts) = 0 THEN <<>>
    ELSE IF Len(parts) = 1 THEN parts[1]
    ELSE parts[1] \o <<sep>> \o join(Tail(parts), sep)

\* path.replace(/\\/g, '/')
normalizeSlashes(s) == [i \in 1..Len(s) |-> IF s[i] = "\\" THEN "/" ELSE s[i]]

\* fontPath.toLowerCase().split('.').pop() and filePath.split('.').pop()
extensionOf(s) == LET parts == split(s, ".") IN parts[Len(parts)]

\* ------------------------------------------------------- archive contents

\* The archive is a Map<string, Uint8Array>: here a sequence of entries
\* [path, data] in insertion order, paths unique.  The bytes of an entry are
\* described by what the collaborators make of them: the tree the markup
\* parser returns for a text file, or whether the font / image codec accepts
\* a binary file.  "empty" is a file of zero bytes.
Null == [kind |-> "null"]

archiveHas(archive, p) == \E i \in 1..Len(archive) : archive[i].path = p
archiveGet(archive, p) ==
    archive[CHOOSE i \in 1..Len(archive) : archive[i].path = p].data

\* new TextDecoder('utf-8').decode(data): the text of the file.
decodeText(data) == data

\* Truthiness of a file's text (the empty string is falsy, null is falsy).
Truthy(text) == text.kind \notin {"null", "empty"}

\* A child or attribute of a parsed markup node, or the default when the
\* node does not carry it (undefined in the code).
Has(node, name) == name \in DOMAIN node
Field(node, name, dflt) == IF Has(node, name) THEN node[name] ELSE dflt

readTextFile(archive, filePath) ==
    LET normalized == normalizeSlashes(filePath)
        lowerTarget == toLowerCase(normalized)
        hits == {i \in 1..Len(archive) :
                    toLowerCase(archive[i].path) = lowerTarget}
    IN  IF archiveHas(archive, normalized)
        THEN decodeText(archiveGet(archive, normalized))
        ELSE IF hits # {} THEN decodeText(archive[Min(hits)].data)
        ELSE Null

readBinaryFile_unzip(archive, filePath) ==
    LET normalized == normalizeSlashes(filePath)
        lowerTarget == toLowerCase(normalized)
        hits == {i \in 1..Len(archive) :
                    toLowerCase(archive[i].path) = lowerTarget}
    IN  IF archiveHas(archive, normalized)
        THEN archiveGet(archive, normalized)
        ELSE IF hits # {} THEN archive[Min(hits)].data
        ELSE Null

\* --------------------------------------------------------------- parser

resolvePath_collapse(parts) ==
    LET RECURSIVE go(_, _)
        go(k, resolved) ==
            IF k > Len(parts) THEN resolved
            ELSE IF parts[k] = <<".", ".">>
                 THEN go(k + 1, IF Len(resolved) = 0 THEN resolved
                                ELSE SubSeq(resolved, 1, Len(resolved) - 1))
            ELSE IF parts[k] # <<".">> /\ parts[k] # <<>>
                 THEN go(k + 1, Append(resolved, parts[k]))
            ELSE go(k + 1, resolved)
    IN  go(1, <<>>)

resolvePath(basePath, relativePath) ==
    IF startsWith(relativePath, <<"/">>) THEN Tail(relativePath)
    ELSE LET baseDir == IF includes(basePath, <<"/">>)
                        THEN SubSeq(basePath, 1, lastIndexOf(basePath, "/") - 1)
                        ELSE <<>>
             parts == split(baseDir, "/") \o split(relativePath, "/")
         IN  join(resolvePath_collapse(parts), "/")

findOfdXml(archive) ==
    LET candidates == << <<"O", "F", "D", ".", "x", "m", "l">>, <<"o", "f", "d", ".", "x", "m", "l">>, <<"O", "F", "D", "/", "O", "F", "D", ".", "x", "m", "l">> >>
        good == {k \in 1..Len(candidates) :
                    Truthy(readTextFile(archive, candidates[k]))}
        named == {i \in 1..Len(archive) :
                    /\ endsWith(toLowerCase(archive[i].path), <<"o", "f", "d", ".", "x", "m", "l">>)
                    /\ ~includes(toLowerCase(archive[i].path), <<"d", "o", "c", "u", "m", "e", "n", "t">>)}
    IN  IF good # {} THEN readTextFile(archive, candidates[Min(good)])
        ELSE IF named # {} THEN readTextFile(archive, archive[Min(named)].path)
        ELSE Null

\* parseBox: a box string is given as its numeric tokens.
parseBox(box) ==
    IF box = <<>> THEN [x |-> 0, y |-> 0, width |-> 210, height |-> 297]
    ELSE [x      |-> IF Len(box) >= 1 THEN box[1] ELSE 0,
          y      |-> IF Len(box) >= 2 THEN box[2] ELSE 0,
          width  |-> IF Len(box) >= 3 THEN box[3] ELSE 210,
          height |-> IF Len(box) >= 4 THEN box[4] ELSE 297]

\* Map.prototype.set on a map kept as a sequence of records keyed by id.
mapSet(m, rec) ==
    IF \E i \in 1..Len(m) : m[i].id = rec.id
    THEN [i \in 1..Len(m) |-> IF m[i].id = rec.id THEN rec ELSE m[i]]
    ELSE Append(m, rec)
mapHas(m, id) == \E i \in 1..Len(m) : m[i].id = id
mapGet(m, id) == m[CHOOSE i \in 1..Len(m) : m[i].id = id]

\* One <Font> node of a resource manifest.
parseFontNode(font, basePath) ==
    [id         |-> font.ID,
     name       |-> IF Has(font, "FontName") THEN font.FontName
                    ELSE IF Has(font, "FamilyName") THEN font.FamilyName
                    ELSE <<"u", "n", "k", "n", "o", "w", "n">>,
     italic     |-> Field(font, "Italic", FALSE),
     bold       |-> Field(font, "Bold", FALSE),
     serif      |-> Field(font, "Serif", FALSE),
     fixedWidth |-> Field(font, "FixedWidth", FALSE),
     fontFile   |-> IF Field(font, "FontFile", <<>>) # <<>>
                    THEN basePath \o <<"/">> \o font.FontFile
                    ELSE <<>>]

\* One <MultiMedia> node of a resource manifest.
parseMediaNode(mm, basePath) ==
    [id     |-> mm.ID,
     format |-> toUpperCase(extensionOf(mm.MediaFile)),
     path   |-> basePath \o <<"/">> \o mm.MediaFile]

parseResources(resXml, fonts, images, basePath) ==
    LET fontList == Field(resXml, "Fonts", <<>>)
        mmList == Field(resXml, "MultiMedias", <<>>)
        RECURSIVE addFonts(_, _)
        addFonts(k, acc) ==
            IF k > Len(fontList) THEN acc
            ELSE IF Field(fontList[k], "ID", "") = "" THEN addFonts(k + 1, acc)
            ELSE addFonts(k + 1, mapSet(acc, parseFontNode(fontList[k], basePath)))
        RECURSIVE addImages(_, _)
        addImages(k, acc) ==
            IF k > Len(mmList) THEN acc
            ELSE IF Field(mmList[k], "ID", "") = "" THEN addImages(k + 1, acc)
            ELSE IF Field(mmList[k], "Type", "Image") # "Image"
                 THEN addImages(k + 1, acc)
            ELSE IF Field(mmList[k], "MediaFile", <<>>) = <<>>
                 THEN addImages(k + 1, acc)
            ELSE addImages(k + 1, mapSet(acc, parseMediaNode(mmList[k], basePath)))
    IN  [fonts |-> addFonts(1, fonts), images |-> addImages(1, images)]

\* parseTextObject / parsePathObject / parseImageObject.  An object keeps its
\* id, its font or resource reference and its size: the number of glyphs of
\* a text object, the number of commands of a path object.
parseObject(node) ==
    [type |-> CASE node.tag = "TextObject" -> "text"
                [] node.tag = "PathObject" -> "path"
                [] OTHER -> "image",
     id         |-> Field(node, "ID", ""),
     font       |-> IF node.tag = "TextObject" THEN Field(node, "Ref", "") ELSE "",
     resourceId |-> IF node.tag = "ImageObject" THEN Field(node, "Ref", "") ELSE "",
     n          |-> Field(node, "N", 0)]

\* The objects of a layer or container block: the markup parser groups the
\* children by tag, and parseLayer reads TextObject, PathObject, ImageObject
\* and PageBlock in that order.
RECURSIVE layerObjects(_)
layerObjects(kids) ==
    LET ofTag(tag) == SelectSeq(kids, LAMBDA k : k.tag = tag)
        own(tag) == [i \in 1..Len(ofTag(tag)) |-> parseObject(ofTag(tag)[i])]
        blocks == ofTag("PageBlock")
        RECURSIVE nested(_)
        nested(k) ==
            IF k > Len(blocks) THEN <<>>
            ELSE layerObjects(blocks[k].kids) \o nested(k + 1)
    IN  own("TextObject") \o own("PathObject") \o own("ImageObject") \o nested(1)

parseLayer(layerNode) ==
    [id      |-> Field(layerNode, "ID", ""),
     type    |-> Field(layerNode, "Type", ""),
     objects |-> layerObjects(Field(layerNode, "kids", <<>>))]

parsePage(pageXml, pageId, pageIndex, defaultArea) ==
    LET physicalBox == Field(pageXml, "PhysicalBox", <<>>)
        contentLayers == Field(pageXml, "Content", <<>>)
        directLayers == Field(pageXml, "Layer", <<>>)
        layerNodes == IF Len(contentLayers) = 0 THEN directLayers
                      ELSE contentLayers
    IN  [id         |-> pageId,
         index      |-> pageIndex,
         area       |-> IF physicalBox # <<>> THEN parseBox(physicalBox)
                        ELSE defaultArea,
         layers     |-> [i \in 1..Len(layerNodes) |-> parseLayer(layerNodes[i])],
         templateId |-> Field(pageXml, "TemplateID", "")]

\* String(i) for a page index.
indexString(i) == <<"0", "1", "2", "3", "4", "5", "6", "7", "8", "9">>[i + 1]

NoDocument ==
    [physicalBox |-> parseBox(<<>>), fonts |-> <<>>, images |-> <<>>,
     pages |-> <<>>, basePath |-> <<>>]

Thrown(msg) == [threw |-> TRUE, error |-> msg, doc |-> NoDocument]
Returned(d) == [threw |-> FALSE, error |-> "", doc |-> d]

\* A variant that keeps every page reference that names a content file,
\* readable or not.
pageRefReadable_located(archive, docPath, pageRef) ==
    Field(pageRef, "BaseLoc", <<>>) # <<>>

\* A page reference is kept when it names a content file that can be read.
pageRefReadable(archive, docPath, pageRef) ==
    /\ Field(pageRef, "BaseLoc", <<>>) # <<>>
    /\ Truthy(readTextFile(archive, resolvePath(docPath, pageRef.BaseLoc)))

parseDocument(archive, docPath, document) ==
    LET basePath == IF includes(docPath, <<"/">>)
                    THEN SubSeq(docPath, 1, lastIndexOf(docPath, "/") - 1)
                    ELSE <<>>
        physicalBox == parseBox(Field(document, "PhysicalBox", <<>>))
        resAt(ref) == readTextFile(archive, resolvePath(docPath, ref))
        publicResRef == Field(document, "PublicRes", <<>>)
        docResRef == Field(document, "DocumentRes", <<>>)
        res0 == [fonts |-> <<>>, images |-> <<>>]
        res1 == IF publicResRef # <<>> /\ Truthy(resAt(publicResRef))
                THEN parseResources(resAt(publicResRef), res0.fonts,
                                    res0.images, basePath)
                ELSE res0
        res2 == IF docResRef # <<>> /\ Truthy(resAt(docResRef))
                THEN parseResources(resAt(docResRef), res1.fonts,
                                    res1.images, basePath)
                ELSE res1
        pageRefs == Field(document, "Pages", <<>>)
        kept == SelectSeq([i \in 1..Len(pageRefs) |-> i],
                          LAMBDA i : pageRefReadable(archive, docPath, pageRefs[i]))
    IN  [physicalBox |-> physicalBox,
         fonts       |-> res2.fonts,
         images      |-> res2.images,
         pages       |-> [k \in 1..Len(kept) |->
                            parsePage(
                                readTextFile(archive,
                                    resolvePath(docPath, pageRefs[kept[k]].BaseLoc)),
                                Field(pageRefs[kept[k]], "ID", indexString(kept[k] - 1)),
                                kept[k] - 1,
                                physicalBox)],
         basePath    |-> basePath]

\* A variant that goes on without the document descriptor.
parseOfdXml_lenient(archive) ==
    LET ofdXmlContent == findOfdXml(archive)
        body == Field(ofdXmlContent, "DocBody", Null)
        docPath == Field(body, "DocRoot", <<>>)
        docXmlContent == readTextFile(archive, docPath)
    IN  IF ~Truthy(ofdXmlContent)
        THEN Thrown("Invalid OFD file: OFD.xml not found in archive")
        ELSE IF ~Has(ofdXmlContent, "DocBody")
        THEN Thrown("Invalid OFD file: DocBody not found")
        ELSE IF docPath = <<>>
        THEN Thrown("Invalid OFD file: DocRoot path not found")
        ELSE Returned(parseDocument(archive, docPath, docXmlContent))

parseOfdXml(archive) ==
    LET ofdXmlContent == findOfdXml(archive)
        body == Field(ofdXmlContent, "DocBody", Null)
        docPath == Field(body, "DocRoot", <<>>)
        docXmlContent == readTextFile(archive, docPath)
    IN  IF ~Truthy(ofdXmlContent)
        THEN Thrown("Invalid OFD file: OFD.xml not found in archive")
        ELSE IF ~Has(ofdXmlContent, "DocBody")
        THEN Thrown("Invalid OFD file: DocBody not found")
        ELSE IF docPath = <<>>
        THEN Thrown("Invalid OFD file: DocRoot path not found")
        ELSE IF ~Truthy(docXmlContent)
        THEN Thrown("Document XML not found")
        ELSE Returned(parseDocument(archive, docPath, docXmlContent))

\* ------------------------------------------------------------ filesystem

\* A directory is named by an opaque path; its listing is a sequence of
\* entries in readdir order.  An entry is a file (with its bytes) or a
\* sub-directory (with the path of that directory).
fileEntry(name, src) ==
    [name |-> name, isDir |-> FALSE, path |-> "",
     data |-> [kind |-> "bin", length |-> 4096, font |-> TRUE,
               image |-> "", src |-> src]]
otherEntry(name) ==
    [name |-> name, isDir |-> FALSE, path |-> "",
     data |-> [kind |-> "bin", length |-> 64, font |-> FALSE,
               image |-> "", src |-> ""]]
dirEntry(name, path) == [name |-> name, isDir |-> TRUE, path |-> path, data |-> Null]

\* The layouts of the system font directories a process may run on.
SystemLayouts == {"none", "nested"}

\* The directories callers pass as options.fontDir.
readdir(layout, dir) ==
    CASE dir = "/fonts/a" ->
            << otherEntry(<<"r", "e", "a", "d", "m", "e", ".", "t", "x", "t">>),
               fileEntry(<<"c", "u", "s", "t", "o", "m", ".", "o", "t", "f">>, "/fonts/a/custom.otf"),
               fileEntry(<<"S", "i", "m", "S", "u", "n", ".", "t", "t", "f">>, "/fonts/a/SimSun.ttf") >>
      [] dir = "/fonts/b" ->
            << otherEntry(<<"n", "o", "t", "e", "s", ".", "t", "x", "t">>),
               fileEntry(<<"B", "r", "a", "n", "d", ".", "T", "T", "F">>, "/fonts/b/Brand.TTF"),
               fileEntry(<<"o", "t", "h", "e", "r", ".", "o", "t", "f">>, "/fonts/b/other.otf") >>
      [] dir = "/fonts/empty" ->
            << otherEntry(<<"n", "o", "t", "e", "s", ".", "t", "x", "t">>) >>
      [] dir = "/usr/share/fonts" /\ layout = "nested" ->
            << otherEntry(<<"f", "o", "n", "t", "s", ".", "d", "i", "r">>),
               dirEntry(<<"t", "r", "u", "e", "t", "y", "p", "e">>, "/usr/share/fonts/truetype") >>
      [] dir = "/usr/share/fonts/truetype" /\ layout = "nested" ->
            << dirEntry(<<"w", "q", "y">>, "/usr/share/fonts/truetype/wqy") >>
      [] dir = "/usr/share/fonts/truetype/wqy" /\ layout = "nested" ->
            << fileEntry(<<"w", "q", "y", "-", "z", "e", "n", "h", "e", "i", ".", "t", "t", "f">>,
                         "/usr/share/fonts/truetype/wqy/wqy-zenhei.ttf") >>
      [] OTHER -> << >>

dirExists(layout, dir) ==
    \/ dir \in {"/fonts/a", "/fonts/b", "/fonts/empty"}
    \/ /\ layout = "nested"
       /\ dir \in {"/usr/share/fonts", "/usr/share/fonts/truetype",
                   "/usr/share/fonts/truetype/wqy"}

\* fs.existsSync(path.join(dir, name))
existsSync(layout, dir, name) ==
    \E i \in 1..Len(readdir(layout, dir)) : readdir(layout, dir)[i].name = name

\* The entry path.join(dir, name) names.
entryAt(layout, dir, name) ==
    LET l == readdir(layout, dir)
    IN  l[Min({i \in 1..Len(l) : l[i].name = name})]

KNOWN_CJK_FONTS ==
    << <<"N", "o", "t", "o", "S", "a", "n", "s", "S", "C", "-", "R", "e", "g", "u", "l", "a", "r", ".", "t", "t", "f">>,
       <<"N", "o", "t", "o", "S", "a", "n", "s", "C", "J", "K", "s", "c", "-", "R", "e", "g", "u", "l", "a", "r", ".", "t", "t", "f">>,
       <<"N", "o", "t", "o", "S", "e", "r", "i", "f", "S", "C", "-", "R", "e", "g", "u", "l", "a", "r", ".", "t", "t", "f">>,
       <<"N", "o", "t", "o", "S", "e", "r", "i", "f", "C", "J", "K", "s", "c", "-", "R", "e", "g", "u", "l", "a", "r", ".", "t", "t", "f">>,
       <<"s", "i", "m", "s", "u", "n", ".", "t", "t", "f">>, <<"S", "i", "m", "S", "u", "n", ".", "t", "t", "f">>,
       <<"s", "i", "m", "h", "e", "i", ".", "t", "t", "f">>, <<"S", "i", "m", "H", "e", "i", ".", "t", "t", "f">>,
       <<"m", "s", "y", "h", ".", "t", "t", "f">>, <<"M", "S", "Y", "H", ".", "t", "t", "f">>, <<"m", "s", "y", "h", ".", "t", "t", "c">>,
       <<"s", "i", "m", "k", "a", "i", ".", "t", "t", "f">>, <<"K", "a", "i", "T", "i", ".", "t", "t", "f">>,
       <<"s", "i", "m", "f", "a", "n", "g", ".", "t", "t", "f">>, <<"F", "a", "n", "g", "S", "o", "n", "g", ".", "t", "t", "f">>,
       <<"m", "s", "y", "h", "b", "d", ".", "t", "t", "f">>,
       <<"w", "q", "y", "-", "m", "i", "c", "r", "o", "h", "e", "i", ".", "t", "t", "f">>,
       <<"w", "q", "y", "-", "z", "e", "n", "h", "e", "i", ".", "t", "t", "f">>,
       <<"W", "e", "n", "Q", "u", "a", "n", "Y", "i", "M", "i", "c", "r", "o", "H", "e", "i", ".", "t", "t", "f">>,
       <<"W", "e", "n", "Q", "u", "a", "n", "Y", "i", "Z", "e", "n", "H", "e", "i", ".", "t", "t", "f">>,
       <<"S", "o", "u", "r", "c", "e", "H", "a", "n", "S", "a", "n", "s", "S", "C", "-", "R", "e", "g", "u", "l", "a", "r", ".", "t", "t", "f">>,
       <<"S", "o", "u", "r", "c", "e", "H", "a", "n", "S", "a", "n", "s", "C", "N", "-", "R", "e", "g", "u", "l", "a", "r", ".", "t", "t", "f">>,
       <<"S", "o", "u", "r", "c", "e", "H", "a", "n", "S", "a", "n", "s", "S", "C", "-", "R", "e", "g", "u", "l", "a", "r", ".", "o", "t", "f">>,
       <<"S", "o", "u", "r", "c", "e", "H", "a", "n", "S", "a", "n", "s", "C", "N", "-", "R", "e", "g", "u", "l", "a", "r", ".", "o", "t", "f">>,
       <<"S", "o", "u", "r", "c", "e", "H", "a", "n", "S", "e", "r", "i", "f", "S", "C", "-", "R", "e", "g", "u", "l", "a", "r", ".", "o", "t", "f">>,
       <<"N", "o", "t", "o", "S", "a", "n", "s", "C", "J", "K", "s", "c", "-", "R", "e", "g", "u", "l", "a", "r", ".", "o", "t", "f">>,
       <<"N", "o", "t", "o", "S", "a", "n", "s", "S", "C", "-", "R", "e", "g", "u", "l", "a", "r", ".", "o", "t", "f">>,
       <<"N", "o", "t", "o", "S", "e", "r", "i", "f", "C", "J", "K", "s", "c", "-", "R", "e", "g", "u", "l", "a", "r", ".", "o", "t", "f">>,
       <<"N", "o", "t", "o", "S", "e", "r", "i", "f", "S", "C", "-", "R", "e", "g", "u", "l", "a", "r", ".", "o", "t", "f">> >>

\* getSystemFontDirs() on Linux; the two last are under $HOME.
getSystemFontDirs ==
    << "/usr/share/fonts",
       "/usr/share/fonts/truetype",
       "/usr/share/fonts/opentype",
       "/usr/share/fonts/noto-cjk",
       "/usr/share/fonts/google-noto-cjk",
       "/usr/share/fonts/truetype/noto",
       "/usr/share/fonts/opentype/noto",
       "/usr/local/share/fonts",
       "/home/.fonts",
       "/home/.local/share/fonts" >>

\* The module-level cache of the system search: "null" is not searched yet,
\* "undefined" is searched and not found, "found" carries the file's place.
PathNull == [state |-> "null", dir |-> "", name |-> <<>>]
PathUndefined == [state |-> "undefined", dir |-> "", name |-> <<>>]
PathFound(dir, name) == [state |-> "found", dir |-> dir, name |-> name]

\* walkDir of findSystemCJKFont: the known files of d first, then its
\* sub-directories in listing order, to depth 2.
RECURSIVE walkDir(_, _, _)
walkDir(layout, d, depth) ==
    IF depth > 2 THEN PathUndefined
    ELSE LET entries == readdir(layout, d)
             files == {i \in 1..Len(entries) :
                         /\ ~entries[i].isDir
                         /\ \E k \in 1..Len(KNOWN_CJK_FONTS) :
                                KNOWN_CJK_FONTS[k] = entries[i].name}
             subs == SelectSeq(entries, LAMBDA e : e.isDir)
             RECURSIVE firstIn(_)
             firstIn(k) ==
                 IF k > Len(subs) THEN PathUndefined
                 ELSE LET found == walkDir(layout, subs[k].path, depth + 1)
                      IN  IF found.state = "found" THEN found
                          ELSE firstIn(k + 1)
         IN  IF files # {} THEN PathFound(d, entries[Min(files)].name)
             ELSE firstIn(1)

\* The scan of findSystemCJKFont over the directory list from index k on.
RECURSIVE scanSystemDirs(_, _)
scanSystemDirs(layout, k) ==
    IF k > Len(getSystemFontDirs) THEN PathUndefined
    ELSE LET dir == getSystemFontDirs[k]
             direct == {j \in 1..Len(KNOWN_CJK_FONTS) :
                          existsSync(layout, dir, KNOWN_CJK_FONTS[j])}
             walked == IF dirExists(layout, dir) THEN walkDir(layout, dir, 0)
                       ELSE PathUndefined
         IN  IF direct # {} THEN PathFound(dir, KNOWN_CJK_FONTS[Min(direct)])
             ELSE IF walked.state = "found" THEN walked
             ELSE scanSystemDirs(layout, k + 1)

\* A variant that scans the directories on every call.
findSystemCJKFont_rescan(layout, cachedPath) ==
    [path |-> scanSystemDirs(layout, 1), scans |-> 1]

\* findSystemCJKFont(): the result, which is the cache it leaves, and the
\* number of scans of the directories it made.
findSystemCJKFont(layout, cachedPath) ==
    IF cachedPath.state # "null" THEN [path |-> cachedPath, scans |-> 0]
    ELSE [path |-> scanSystemDirs(layout, 1), scans |-> 1]

\* fs.readFileSync of a file or directory entry: [threw, data].
readFileSync(entry) ==
    IF entry.isDir THEN [threw |-> TRUE, data |-> Null]
    ELSE [threw |-> FALSE, data |-> entry.data]

\* /\.(ttf|otf)$/i.test(entry)
isOutlineName(name) ==
    \/ endsWith(toLowerCase(name), <<".", "t", "t", "f">>)
    \/ endsWith(toLowerCase(name), <<".", "o", "t", "f">>)

\* The part of getCJKFontBytes that reads options.fontDir: the bytes, or
\* Null when the directory yields none.
fontDirBytes(layout, fontDir) ==
    LET known == {k \in 1..Len(KNOWN_CJK_FONTS) :
                    /\ existsSync(layout, fontDir, KNOWN_CJK_FONTS[k])
                    /\ ~readFileSync(entryAt(layout, fontDir, KNOWN_CJK_FONTS[k])).threw}
        entries == readdir(layout, fontDir)
        outline == {i \in 1..Len(entries) :
                      /\ isOutlineName(entries[i].name)
                      /\ ~readFileSync(entries[i]).threw}
    IN  IF known # {}
        THEN readFileSync(entryAt(layout, fontDir, KNOWN_CJK_FONTS[Min(known)])).data
        ELSE IF outline # {} THEN readFileSync(entries[Min(outline)]).data
        ELSE Null

\* getCJKFontBytes(fontDir): the bytes returned, the two module-level
\* caches as the call leaves them, and the scans of the system directories
\* the call made.
getCJKFontBytes(layout, fontDir, cachedBytes, cachedPath) ==
    LET user == IF fontDir # "" THEN fontDirBytes(layout, fontDir) ELSE Null
        search == findSystemCJKFont(layout, cachedPath)
        systemPath == search.path
        systemBytes ==
            readFileSync(entryAt(layout, systemPath.dir, systemPath.name)).data
    IN  IF cachedBytes # Null
        THEN [bytes |-> cachedBytes, cachedBytes |-> cachedBytes,
              cachedPath |-> cachedPath, scans |-> 0]
        ELSE IF user # Null
        THEN [bytes |-> user, cachedBytes |-> user, cachedPath |-> cachedPath,
              scans |-> 0]
        ELSE IF systemPath.state = "found"
        THEN [bytes |-> systemBytes, cachedBytes |-> systemBytes,
              cachedPath |-> systemPath, scans |-> search.scans]
        ELSE [bytes |-> Null, cachedBytes |-> cachedBytes,
              cachedPath |-> systemPath, scans |-> search.scans]

\* ------------------------------------------------------- font resolution

StdFont(name) == [kind |-> "standard", name |-> name, src |-> <<>>, bytes |-> ""]
DefaultFont == [kind |-> "default", name |-> "Helvetica", src |-> <<>>, bytes |-> ""]
EmbeddedFont(path) == [kind |-> "embedded", name |-> "", src |-> path, bytes |-> ""]
CjkFont(bytes) == [kind |-> "cjk", name |-> "", src |-> <<>>, bytes |-> bytes.src]
NoFont == [kind |-> "none", name |-> "", src |-> <<>>, bytes |-> ""]

mapToStandardFont(ofdFont) ==
    LET name == toLowerCase(ofdFont.name)
        has(t) == includes(name, t)
    IN  IF has(<<"s", "o", "n", "g">>) \/ has(<<"U+5B8B">>) \/ has(<<"s", "i", "m", "s", "u", "n">>)
        THEN IF ofdFont.bold THEN "TimesRomanBold" ELSE "TimesRoman"
        ELSE IF has(<<"h", "e", "i">>) \/ has(<<"U+9ED1">>) \/ has(<<"s", "i", "m", "h", "e", "i">>)
        THEN IF ofdFont.bold THEN "HelveticaBold" ELSE "Helvetica"
        ELSE IF has(<<"k", "a", "i">>) \/ has(<<"U+6977">>) \/ has(<<"k", "a", "i", "t", "i">>)
        THEN IF ofdFont.italic THEN "TimesRomanItalic" ELSE "TimesRoman"
        ELSE IF has(<<"f", "a", "n", "g">>) \/ has(<<"U+4EFF">>) \/ has(<<"f", "a", "n", "g", "s", "o", "n", "g">>)
        THEN "TimesRoman"
        ELSE IF has(<<"c", "o", "u", "r", "i", "e", "r">>) \/ has(<<"m", "o", "n", "o">>) \/ ofdFont.fixedWidth
        THEN IF ofdFont.bold THEN "CourierBold" ELSE "Courier"
        ELSE IF has(<<"t", "i", "m", "e", "s">>) \/ has(<<"s", "e", "r", "i", "f">>) \/ ofdFont.serif
        THEN IF ofdFont.bold /\ ofdFont.italic THEN "TimesRomanBoldItalic"
             ELSE IF ofdFont.bold THEN "TimesRomanBold"
             ELSE IF ofdFont.italic THEN "TimesRomanItalic"
             ELSE "TimesRoman"
        ELSE IF ofdFont.bold /\ ofdFont.italic THEN "HelveticaBoldOblique"
        ELSE IF ofdFont.bold THEN "HelveticaBold"
        ELSE IF ofdFont.italic THEN "HelveticaOblique"
        ELSE "Helvetica"

\* The code points of the names used here that the CJK range test (U+4E00 to U+9FFF) matches.
CJKUnified == {"U+5B8B", "U+4F53", "U+9ED1", "U+6977", "U+4EFF"}

\* The isCJK test of renderToPdf.
isCJK(ofdName) ==
    LET fontName == toLowerCase(ofdName)
        has(t) == includes(fontName, t)
    IN  \/ \E i \in 1..Len(ofdName) : ofdName[i] \in CJKUnified
        \/ has(<<"s", "o", "n", "g">>) \/ has(<<"h", "e", "i">>)
        \/ has(<<"k", "a", "i">>) \/ has(<<"f", "a", "n", "g">>)
        \/ has(<<"s", "i", "m">>) \/ has(<<"n", "o", "t", "o">>)
        \/ has(<<"p", "i", "n", "g", "f", "a", "n", "g">>) \/ has(<<"h", "i", "r", "a", "g", "i", "n", "o">>)
        \/ has(<<"s", "o", "u", "r", "c", "e", " ", "h", "a", "n">>) \/ has(<<"w", "e", "n", "q", "u", "a", "n", "y", "i">>)
        \/ has(<<"s", "t", "k", "a", "i", "t", "i">>) \/ has(<<"s", "t", "s", "o", "n", "g">>)
        \/ has(<<"s", "t", "h", "e", "i", "t", "i">>) \/ has(<<"s", "t", "f", "a", "n", "g", "s", "o", "n", "g">>)
        \/ has(<<"f", "z">>) \/ has(<<"a", "d", "o", "b", "e">>)

\* readBinaryFile of pdf-renderer.ts: four candidate paths, each looked up
\* exactly and then without regard to case.
readBinaryFile(archive, path) ==
    LET normalizedPath == normalizeSlashes(path)
        segments == split(normalizedPath, "/")
        candidates ==
            << normalizedPath,
               IF startsWith(normalizedPath, <<"/">>) THEN Tail(normalizedPath)
               ELSE normalizedPath,
               <<"D", "o", "c", "_", "0", "/">> \o normalizedPath,
               <<"D", "o", "c", "_", "0", "/", "R", "e", "s", "/">> \o segments[Len(segments)] >>
        found(c) ==
            \/ archiveHas(archive, c)
            \/ \E i \in 1..Len(archive) :
                    toLowerCase(archive[i].path) = toLowerCase(c)
        good == {k \in 1..Len(candidates) : found(candidates[k])}
    IN  IF path = <<>> \/ good = {} THEN Null
        ELSE readBinaryFile_unzip(archive, candidates[Min(good)])

\* pdfDoc.embedFont(bytes): pdf-lib parses an outline font with the fontkit
\* registered on that document, and throws when there is none or when the
\* bytes are no font it can read.
embedFontThrows(docFontkit, bytes) == ~(docFontkit /\ Field(bytes, "font", FALSE))

\* Tier 1 of the font loop: the descriptor's own font file.
SupportedFontExtensions == { <<"t", "t", "f">>, <<"o", "t", "f">>, <<"w", "o", "f", "f">> }
MinFontBytes == 100

embeddedTier(ofdFont, archive, hasFontkit, docFontkit) ==
    LET fontPath == ofdFont.fontFile
        ext == extensionOf(toLowerCase(fontPath))
        fontBytes == readBinaryFile(archive, fontPath)
    IN  IF /\ hasFontkit
           /\ fontPath # <<>>
           /\ ext \in SupportedFontExtensions
           /\ fontBytes # Null
           /\ Field(fontBytes, "length", 0) > MinFontBytes
           /\ ~embedFontThrows(docFontkit, fontBytes)
        THEN EmbeddedFont(fontPath)
        ELSE NoFont

\* Tier 2: the CJK fallback font, for a CJK-looking name.
cjkTier(ofdFont, cjkFont) ==
    IF cjkFont # NoFont /\ isCJK(ofdFont.name) THEN cjkFont ELSE NoFont

\* Tier 3: a standard font; the default font when embedding it throws.
standardTier(ofdFont, stdThrows) ==
    IF stdThrows THEN DefaultFont ELSE StdFont(mapToStandardFont(ofdFont))

\* A variant that prefers the CJK fallback font to the descriptor's own file.
resolveFont_cjkFirst(ofdFont, archive, hasFontkit, docFontkit, cjkFont, stdThrows) ==
    LET t1 == embeddedTier(ofdFont, archive, hasFontkit, docFontkit)
        t2 == cjkTier(ofdFont, cjkFont)
    IN  IF t2 # NoFont THEN t2
        ELSE IF t1 # NoFont THEN t1
        ELSE standardTier(ofdFont, stdThrows)

\* One turn of the font loop of renderToPdf.
resolveFont(ofdFont, archive, hasFontkit, docFontkit, cjkFont, stdThrows) ==
    LET t1 == embeddedTier(ofdFont, archive, hasFontkit, docFontkit)
        t2 == cjkTier(ofdFont, cjkFont)
    IN  IF t1 # NoFont THEN t1
        ELSE IF t2 # NoFont THEN t2
        ELSE standardTier(ofdFont, stdThrows)

\* One turn of the font loop of renderToPdfSafe.
resolveFontSafe(ofdFont, stdThrows) ==
    IF stdThrows THEN DefaultFont ELSE StdFont(mapToStandardFont(ofdFont))

\* ------------------------------------------------------- input archives

entry(path, data) == [path |-> path, data |-> data]
fontBytes(len, ok) ==
    [kind |-> "bin", length |-> len, font |-> ok, image |-> "", src |-> ""]
imageBytes(codec) ==
    [kind |-> "bin", length |-> 2048, font |-> FALSE, image |-> codec, src |-> ""]
object(tag, id, ref, n) == [tag |-> tag, ID |-> id, Ref |-> ref, N |-> n]
block(kids) == [tag |-> "PageBlock", kids |-> kids]
layer(id, kids) == [ID |-> id, Type |-> "Body", kids |-> kids]
entryXml(docRoot) == [kind |-> "xml", DocBody |-> [DocRoot |-> docRoot]]

\* A well-formed two-page document: a font without a file, a font with an
\* embeddable file, an image, an image whose bytes are not in the archive,
\* and references to a font and to an image that no manifest declares.
ArchiveFull ==
    << entry(<<"O", "F", "D", ".", "x", "m", "l">>, entryXml(<<"D", "o", "c", "_", "0", "/", "D", "o", "c", "u", "m", "e", "n", "t", ".", "x", "m", "l">>)),
       entry(<<"D", "o", "c", "_", "0", "/", "D", "o", "c", "u", "m", "e", "n", "t", ".", "x", "m", "l">>,
             [kind |-> "xml",
              PhysicalBox |-> <<0, 0, 210, 297>>,
              PublicRes |-> <<"P", "u", "b", "l", "i", "c", "R", "e", "s", ".", "x", "m", "l">>,
              Pages |-> << [ID |-> "1", BaseLoc |-> <<"P", "a", "g", "e", "s", "/", "P", "a", "g", "e", "_", "0", ".", "x", "m", "l">>],
                           [ID |-> "2", BaseLoc |-> <<".", "/", "P", "a", "g", "e", "s", "/", "P", "a", "g", "e", "_", "1", ".", "x", "m", "l">>] >>]),
       entry(<<"D", "o", "c", "_", "0", "/", "P", "u", "b", "l", "i", "c", "R", "e", "s", ".", "x", "m", "l">>,
             [kind |-> "xml",
              Fonts |-> << [ID |-> "f1", FontName |-> <<"S", "i", "m", "S", "u", "n">>],
                           [ID |-> "f2", FontName |-> <<"A", "r", "i", "a", "l">>,
                            FontFile |-> <<"R", "e", "s", "/", "f", "o", "n", "t", "_", "2", ".", "t", "t", "f">>] >>,
              MultiMedias |-> << [ID |-> "m1", Type |-> "Image",
                                  MediaFile |-> <<"R", "e", "s", "/", "i", "m", "a", "g", "e", "_", "1", ".", "p", "n", "g">>],
                                 [ID |-> "m2",
                                  MediaFile |-> <<"R", "e", "s", "/", "g", "o", "n", "e", ".", "j", "p", "g">>] >>]),
       entry(<<"D", "o", "c", "_", "0", "/", "P", "a", "g", "e", "s", "/", "P", "a", "g", "e", "_", "0", ".", "x", "m", "l">>,
             [kind |-> "xml",
              Content |-> << layer("L1",
                  << object("ImageObject", "o1", "m1", 0),
                     object("TextObject", "o2", "f1", 1) >>) >>]),
       entry(<<"D", "o", "c", "_", "0", "/", "P", "a", "g", "e", "s", "/", "P", "a", "g", "e", "_", "1", ".", "x", "m", "l">>,
             [kind |-> "xml",
              PhysicalBox |-> <<0, 0, 100, 50>>,
              Content |-> << layer("L2",
                                << object("PathObject", "o3", "", 2) >>),
                             layer("L3",
                                << object("TextObject", "o4", "f9", 2),
                                   block(<< object("ImageObject", "o5", "m9", 0),
                                            object("ImageObject", "o6", "m2", 0) >>) >>) >>]),
       entry(<<"D", "o", "c", "_", "0", "/", "R", "e", "s", "/", "f", "o", "n", "t", "_", "2", ".", "t", "t", "f">>, fontBytes(4096, TRUE)),
       entry(<<"D", "o", "c", "_", "0", "/", "R", "e", "s", "/", "i", "m", "a", "g", "e", "_", "1", ".", "p", "n", "g">>, imageBytes("png")) >>

\* No entry descriptor: nothing in the archive is named OFD.xml.
ArchiveNoEntry ==
    << entry(<<"D", "o", "c", "_", "0", "/", "D", "o", "c", "u", "m", "e", "n", "t", ".", "x", "m", "l">>,
             [kind |-> "xml",
              Pages |-> << [ID |-> "1", BaseLoc |-> <<"P", "a", "g", "e", "_", "0", ".", "x", "m", "l">>] >>]),
       entry(<<"D", "o", "c", "_", "0", "/", "P", "a", "g", "e", "_", "0", ".", "x", "m", "l">>,
             [kind |-> "xml",
              Content |-> << layer("L1",
                  << object("TextObject", "o1", "f1", 1) >>) >>]) >>

\* The entry descriptor names a document descriptor the archive lacks.
ArchiveNoDocument ==
    << entry(<<"O", "F", "D", ".", "x", "m", "l">>, entryXml(<<"D", "o", "c", "_", "0", "/", "D", "o", "c", "u", "m", "e", "n", "t", ".", "x", "m", "l">>)),
       entry(<<"D", "o", "c", "_", "1", "/", "D", "o", "c", "u", "m", "e", "n", "t", ".", "x", "m", "l">>,
             [kind |-> "xml",
              Pages |-> << [ID |-> "1", BaseLoc |-> <<"P", "a", "g", "e", "_", "0", ".", "x", "m", "l">>] >>]),
       entry(<<"D", "o", "c", "_", "1", "/", "P", "a", "g", "e", "_", "0", ".", "x", "m", "l">>,
             [kind |-> "xml",
              Content |-> << layer("L1",
                  << object("TextObject", "o1", "f1", 1) >>) >>]) >>

\* The entry descriptor is found by the scan only.  Three page references:
\* the second names a content file the archive lacks, the third a file of
\* zero bytes.  The first page names a template page, the layers of the
\* fourth sit directly under the page.  One font file has an unsupported
\* extension, another holds bytes that are no font.
ArchiveGap ==
    << entry(<<"R", "o", "o", "t", "/", "O", "F", "D", ".", "X", "M", "L">>, entryXml(<<"D", "o", "c", "_", "0", "/", "D", "o", "c", "u", "m", "e", "n", "t", ".", "x", "m", "l">>)),
       entry(<<"D", "o", "c", "_", "0", "/", "D", "o", "c", "u", "m", "e", "n", "t", ".", "x", "m", "l">>,
             [kind |-> "xml",
              DocumentRes |-> <<"D", "o", "c", "u", "m", "e", "n", "t", "R", "e", "s", ".", "x", "m", "l">>,
              TemplatePages |-> << [ID |-> "t1", BaseLoc |-> <<"T", "p", "l", "s", "/", "T", "p", "l", "_", "0", ".", "x", "m", "l">>] >>,
              Pages |-> << [ID |-> "1", BaseLoc |-> <<"P", "a", "g", "e", "_", "0", ".", "x", "m", "l">>],
                           [ID |-> "2", BaseLoc |-> <<"P", "a", "g", "e", "_", "1", ".", "x", "m", "l">>],
                           [ID |-> "3", BaseLoc |-> <<"P", "a", "g", "e", "_", "2", ".", "x", "m", "l">>],
                           [BaseLoc |-> <<"P", "a", "g", "e", "_", "3", ".", "x", "m", "l">>] >>]),
       entry(<<"D", "o", "c", "_", "0", "/", "D", "o", "c", "u", "m", "e", "n", "t", "R", "e", "s", ".", "x", "m", "l">>,
             [kind |-> "xml",
              Fonts |-> << [ID |-> "f3", FontName |-> <<"K", "a", "i", "T", "i">>, Italic |-> TRUE,
                            FontFile |-> <<"R", "e", "s", "/", "k", "a", "i", "t", "i", ".", "t", "t", "c">>],
                           [ID |-> "f4", FontName |-> <<"U+5B8B", "U+4F53">>,
                            Bold |-> TRUE, FontFile |-> <<"R", "e", "s", "/", "b", "r", "o", "k", "e", "n", ".", "o", "t", "f">>] >>]),
       entry(<<"D", "o", "c", "_", "0", "/", "P", "a", "g", "e", "_", "0", ".", "x", "m", "l">>,
             [kind |-> "xml",
              TemplateID |-> "t1",
              Content |-> << layer("L1",
                  << object("TextObject", "o1", "f3", 1) >>) >>]),
       entry(<<"D", "o", "c", "_", "0", "/", "P", "a", "g", "e", "_", "2", ".", "x", "m", "l">>, [kind |-> "empty"]),
       entry(<<"D", "o", "c", "_", "0", "/", "P", "a", "g", "e", "_", "3", ".", "x", "m", "l">>,
             [kind |-> "xml",
              Layer |-> << layer("L2",
                  << object("PathObject", "o2", "", 0),
                     object("TextObject", "o3", "f4", 1) >>) >>]),
       entry(<<"D", "o", "c", "_", "0", "/", "T", "p", "l", "s", "/", "T", "p", "l", "_", "0", ".", "x", "m", "l">>,
             [kind |-> "xml",
              Content |-> << layer("T1",
                  << object("PathObject", "t1o1", "", 1) >>) >>]),
       entry(<<"D", "o", "c", "_", "0", "/", "R", "e", "s", "/", "k", "a", "i", "t", "i", ".", "t", "t", "c">>, fontBytes(4096, TRUE)),
       entry(<<"D", "o", "c", "_", "0", "/", "R", "e", "s", "/", "b", "r", "o", "k", "e", "n", ".", "o", "t", "f">>, fontBytes(4096, FALSE)) >>

\* A document without pages whose manifests declare fonts of every kind the
\* standard mapping tells apart.
ArchiveFonts ==
    << entry(<<"o", "f", "d", ".", "x", "m", "l">>, entryXml(<<"D", "o", "c", "u", "m", "e", "n", "t", ".", "x", "m", "l">>)),
       entry(<<"D", "o", "c", "u", "m", "e", "n", "t", ".", "x", "m", "l">>,
             [kind |-> "xml",
              PublicRes |-> <<"P", "u", "b", "l", "i", "c", "R", "e", "s", ".", "x", "m", "l">>,
              DocumentRes |-> <<"/", "R", "e", "s", "/", "D", "o", "c", "u", "m", "e", "n", "t", "R", "e", "s", ".", "x", "m", "l">>,
              Pages |-> << >>]),
       entry(<<"P", "u", "b", "l", "i", "c", "R", "e", "s", ".", "x", "m", "l">>,
             [kind |-> "xml",
              Fonts |-> << [ID |-> "f5", FontName |-> <<"T", "i", "m", "e", "s", " ", "N", "e", "w", " ", "R", "o", "m", "a", "n">>,
                            Bold |-> TRUE, Italic |-> TRUE],
                           [ID |-> "f6", FamilyName |-> <<"N", "o", "t", "o", " ", "S", "a", "n", "s">>,
                            FixedWidth |-> TRUE] >>]),
       entry(<<"R", "e", "s", "/", "D", "o", "c", "u", "m", "e", "n", "t", "R", "e", "s", ".", "x", "m", "l">>,
             [kind |-> "xml",
              Fonts |-> << [ID |-> "f7", FontName |-> <<"S", "i", "m", "S", "u", "n">>, Bold |-> TRUE,
                            FontFile |-> <<"t", "i", "n", "y", ".", "t", "t", "f">>],
                           [ID |-> "f5", FontName |-> <<"A", "r", "i", "a", "l">>,
                            Italic |-> TRUE],
                           [ID |-> "f8", FontName |-> <<"S", "i", "m", "H", "e", "i">>,
                            FontFile |-> <<"R", "e", "s", "\\", "h", "e", "i", ".", "T", "T", "F">>] >>]),
       entry(<<"t", "i", "n", "y", ".", "t", "t", "f">>, fontBytes(64, TRUE)),
       entry(<<"R", "e", "s", "/", "h", "e", "i", ".", "t", "t", "f">>, fontBytes(4096, TRUE)) >>

\* A one-page document whose descriptor lies at the root of the archive:
\* its base path is empty.  The page draws an image whose file is in the
\* archive at the path of the manifest.
ArchiveRoot ==
    << entry(<<"O", "F", "D", ".", "x", "m", "l">>, entryXml(<<"D", "o", "c", "u", "m", "e", "n", "t", ".", "x", "m", "l">>)),
       entry(<<"D", "o", "c", "u", "m", "e", "n", "t", ".", "x", "m", "l">>,
             [kind |-> "xml",
              PhysicalBox |-> <<0, 0, 210, 297>>,
              PublicRes |-> <<"P", "u", "b", "l", "i", "c", "R", "e", "s", ".", "x", "m", "l">>,
              Pages |-> << [ID |-> "1", BaseLoc |-> <<"P", "a", "g", "e", "s", "/", "P", "a", "g", "e", "_", "0", ".", "x", "m", "l">>] >>]),
       entry(<<"P", "u", "b", "l", "i", "c", "R", "e", "s", ".", "x", "m", "l">>,
             [kind |-> "xml",
              MultiMedias |-> << [ID |-> "m1", Type |-> "Image",
                                  MediaFile |-> <<"R", "e", "s", "/", "i", "m", "a", "g", "e", "_", "1", ".", "p", "n", "g">>] >>]),
       entry(<<"P", "a", "g", "e", "s", "/", "P", "a", "g", "e", "_", "0", ".", "x", "m", "l">>,
             [kind |-> "xml",
              Content |-> << layer("L1",
                  << object("ImageObject", "o1", "m1", 0) >>) >>]),
       entry(<<"R", "e", "s", "/", "i", "m", "a", "g", "e", "_", "1", ".", "p", "n", "g">>, imageBytes("png")) >>

ArchiveIds == {"full", "noEntry", "noDocument", "gap", "fonts"}

Archive(id) ==
    CASE id = "full" -> ArchiveFull
      [] id = "noEntry" -> ArchiveNoEntry
      [] id = "noDocument" -> ArchiveNoDocument
      [] id = "gap" -> ArchiveGap
      [] id = "fonts" -> ArchiveFonts
      [] id = "root" -> ArchiveRoot
      [] OTHER -> << >>

\* An input that is no ZIP container.
Inputs == ArchiveIds \cup {"notZip"}

\* extractOfd: the archive map, or the rejection of the ZIP reader.
extractOfd(input) ==
    IF input \in ArchiveIds
    THEN [threw |-> FALSE, archive |-> Archive(input)]
    ELSE [threw |-> TRUE, archive |-> << >>]

\* parseOfdXml over each input archive.
Parsed == [id \in ArchiveIds |-> parseOfdXml(extractOfd(id).archive)]

\* -------------------------------------------------------- call arguments

Undefined == [t |-> "undefined"]
Str(v) == [t |-> "string", v |-> v]
Obj(o) == [t |-> "object", v |-> o]

\* ConvertOptions; an absent field reads as FALSE or as the empty string.
ConvertOptions(watermark, fontDir, silent) ==
    [watermark |-> watermark, fontDir |-> fontDir, silent |-> silent]
EmptyOptions == ConvertOptions(FALSE, "", FALSE)
OptionsA == ConvertOptions(TRUE, "/fonts/a", FALSE)
OptionsB == ConvertOptions(FALSE, "/fonts/b", TRUE)
OptionsC == ConvertOptions(FALSE, "/fonts/empty", FALSE)

\* The second and third argument of the convert calls a process makes.
CallForms ==
    { <<Undefined, Undefined>>,
      <<Str("out/a.pdf"), Undefined>>,
      <<Str(""), Undefined>>,
      <<Str("out/a.pdf"), Obj(OptionsA)>>,
      <<Str("out/b.pdf"), Obj(OptionsB)>>,
      <<Obj(OptionsA), Undefined>>,
      <<Obj(OptionsB), Undefined>>,
      <<Obj(OptionsC), Undefined>>,
      <<Undefined, Obj(OptionsA)>> }

\* Lines 72-80 of convert: the output path and the options of the call.
parseArguments(outputOrOptions, maybeOptions) ==
    IF outputOrOptions.t = "string"
    THEN [outputPath |-> outputOrOptions,
          options    |-> IF maybeOptions.t = "object" THEN maybeOptions.v
                         ELSE EmptyOptions]
    ELSE IF outputOrOptions.t = "object"
    THEN [outputPath |-> Undefined, options |-> outputOrOptions.v]
    ELSE [outputPath |-> Undefined, options |-> EmptyOptions]

\* if (outputPath): a string that is not empty.
truthyPath(outputPath) == outputPath.t = "string" /\ outputPath.v # ""

\* showBranding: the value of _brandingShown it leaves.
showBranding(shown, silent) == IF shown \/ silent THEN shown ELSE TRUE

\* ------------------------------------------------------- drawing objects

\* The objects of a page in dispatch order: layer by layer.
RECURSIVE layersObjects(_)
layersObjects(layers) ==
    IF Len(layers) = 0 THEN << >>
    ELSE layers[1].objects \o layersObjects(Tail(layers))
pageObjects(ofdPage) == layersObjects(ofdPage.layers)

\* A variant without the default: an unknown font id yields no font.
fontFor_strict(fontCache, fontId, defaultFont) ==
    IF mapHas(fontCache, fontId) THEN mapGet(fontCache, fontId).font
    ELSE NoFont

\* fontCache.get(obj.font) ?? defaultFont
fontFor(fontCache, fontId, defaultFont) ==
    IF mapHas(fontCache, fontId) THEN mapGet(fontCache, fontId).font
    ELSE defaultFont

\* What a draw call leaves on the page.
TextOp(obj, font, glyphs) ==
    [op |-> "text", obj |-> obj.id, font |-> font, glyphs |-> glyphs]
PathOp(obj) == [op |-> "path", obj |-> obj.id, font |-> NoFont, glyphs |-> 0]
ImageOp(obj) == [op |-> "image", obj |-> obj.id, font |-> NoFont, glyphs |-> 0]
WatermarkOp ==
    [op |-> "watermark", obj |-> "", font |-> StdFont("HelveticaOblique"),
     glyphs |-> 0]

\* renderTextObject draws glyph by glyph; when a glyph and its placeholder
\* both fail to draw, the glyphs drawn before stay on the page and the
\* error leaves the function.  drawn is the number of glyphs drawn.
renderTextObject(obj, font, drawn) ==
    [ops   |-> IF drawn > 0 THEN << TextOp(obj, font, drawn) >> ELSE << >>,
     threw |-> drawn < obj.n]

\* renderPathObject pushes its operators in one call at the end: a path
\* without commands draws nothing, a failure before the push draws nothing.
renderPathObject(obj, drawn) ==
    [ops   |-> IF obj.n > 0 /\ drawn = obj.n THEN << PathOp(obj) >> ELSE << >>,
     threw |-> drawn < obj.n]

\* pdfDoc.embedPng / embedJpg accept the bytes of their own codec.
embedImageThrows(format, imageData) ==
    IF format = <<"P", "N", "G">> THEN imageData.image # "png"
    ELSE IF format \in { <<"J", "P", "G">>, <<"J", "P", "E", "G">>, <<"J", "P", "C">> } THEN imageData.image # "jpg"
    ELSE imageData.image \notin {"png", "jpg"}

\* renderImageObject never throws: a missing resource, missing bytes and a
\* failing codec all return without drawing.
renderImageObject(obj, images, archive) ==
    LET imageResource == mapGet(images, obj.resourceId)
        imageData == readBinaryFile_unzip(archive, imageResource.path)
    IN  [ops   |-> IF ~mapHas(images, obj.resourceId) THEN << >>
                   ELSE IF imageData = Null THEN << >>
                   ELSE IF embedImageThrows(toUpperCase(imageResource.format),
                                            imageData)
                   THEN << >>
                   ELSE << ImageOp(obj) >>,
         threw |-> FALSE]

\* The ways one draw call can end: the number of glyphs (commands) drawn.
\* A draw call may fail as long as the pass has failures left.
drawOutcomes(obj, mayFail) ==
    IF obj.type = "image" THEN {0}
    ELSE IF mayFail THEN
        (IF obj.type = "text" THEN 0..obj.n ELSE {0, obj.n})
    ELSE {obj.n}

\* The body of the switch in the object loop.
drawObject(obj, drawn, fontCache, defaultFont, images, archive) ==
    CASE obj.type = "text" ->
            renderTextObject(obj, fontFor(fontCache, obj.font, defaultFont), drawn)
      [] obj.type = "path" -> renderPathObject(obj, drawn)
      [] OTHER -> renderImageObject(obj, images, archive)

\* A variant whose try / catch sits around the object loop: a draw call
\* that throws ends the loop over the page's objects.
nextObjectIndex_abandon(oi, threw, count) == IF threw THEN count ELSE oi + 1

\* The try / catch sits inside the innermost loop: whether or not the draw
\* call threw, the loop goes on with the next object.
nextObjectIndex(oi, threw, count) == oi + 1

\* pdfDoc.addPage([pageWidth, pageHeight]), sizes kept in millimetres.
newPage(ofdPage) ==
    [width |-> ofdPage.area.width, height |-> ofdPage.area.height,
     source |-> ofdPage.index, ops |-> << >>]

\* pdfDoc.save(): the bytes of the document as drawn so far.
serialize(pages) == [kind |-> "pdf", pages |-> pages]
NoBytes == [kind |-> "none", pages |-> << >>]

\* The settlement of the promise a call returns.
Pending == [state |-> "pending", kind |-> "none"]
Rejected(error) == [state |-> "rejected", kind |-> "error", error |-> error]
ResolvedVoid == [state |-> "resolved", kind |-> "void"]
ResolvedBytes(bytes) == [state |-> "resolved", kind |-> "bytes", bytes |-> bytes]
ResolvedDocument(d) == [state |-> "resolved", kind |-> "document", doc |-> d]

\* ================================================================ functions
\* The functions of the page parser and of the drawing code that compute a
\* value from their arguments alone.

\* ----------------------------------------------------------------- numbers

\* A JavaScript number: a whole number, NaN, or an infinity with its sign.
\* (The numerals of the inputs below are whole.)
Num(v) == [nan |-> FALSE, inf |-> FALSE, v |-> v]
NaN == [nan |-> TRUE, inf |-> FALSE, v |-> 0]
Infinity(sign) == [nan |-> FALSE, inf |-> TRUE, v |-> sign]

\* tokens[i] for an index past the end of the array: undefined.
NoToken == <<"undefined">>
tokenAt(tokens, i) == IF i < Len(tokens) THEN tokens[i + 1] ELSE NoToken

isDigit(c) == c \in {"0", "1", "2", "3", "4", "5", "6", "7", "8", "9"}
digitValue(c) ==
    CASE c = "0" -> 0 [] c = "1" -> 1 [] c = "2" -> 2 [] c = "3" -> 3
      [] c = "4" -> 4 [] c = "5" -> 5 [] c = "6" -> 6 [] c = "7" -> 7
      [] c = "8" -> 8 [] OTHER -> 9

RECURSIVE decimal(_)
decimal(digits) ==
    IF Len(digits) = 0 THEN 0
    ELSE 10 * decimal(SubSeq(digits, 1, Len(digits) - 1))
            + digitValue(digits[Len(digits)])

\* Number(token): the empty string is 0, a signed decimal numeral is its
\* value, a signed "Infinity" is that infinity, anything else (undefined
\* included) is NaN.
Number(token) ==
    LET signed == Len(token) > 0 /\ token[1] \in {"-", "+"}
        digits == IF signed THEN Tail(token) ELSE token
    IN  IF token = << >> THEN Num(0)
        ELSE IF Len(digits) > 0 /\ \A i \in 1..Len(digits) : isDigit(digits[i])
        THEN Num(IF token[1] = "-" THEN 0 - decimal(digits) ELSE decimal(digits))
        ELSE IF digits = <<"I", "n", "f", "i", "n", "i", "t", "y">>
        THEN Infinity(IF token[1] = "-" THEN 0 - 1 ELSE 1)
        ELSE NaN

\* ------------------------------------------------------------- tokenizing

isSpace(c) == c \in {" ", "\t", "\n", "\r"}

RECURSIVE trimStart(_)
trimStart(s) ==
    IF Len(s) > 0 /\ isSpace(s[1]) THEN trimStart(Tail(s)) ELSE s

RECURSIVE trimEnd(_)
trimEnd(s) ==
    IF Len(s) > 0 /\ isSpace(s[Len(s)])
    THEN trimEnd(SubSeq(s, 1, Len(s) - 1))
    ELSE s

\* String.prototype.trim
trim(s) == trimEnd(trimStart(s))

\* s.split(/\s+/): a run of white space is one separator; the empty string
\* gives one empty token.
RECURSIVE splitSpaces(_)
splitSpaces(s) ==
    IF \E i \in 1..Len(s) : isSpace(s[i])
    THEN LET i == Min({k \in 1..Len(s) : isSpace(s[k])})
         IN  <<SubSeq(s, 1, i - 1)>>
                \o splitSpaces(trimStart(SubSeq(s, i, Len(s))))
    ELSE <<s>>

\* ------------------------------------------------- parseAbbreviatedData

isPathCommand(cmd) ==
    cmd \in { <<"M">>, <<"L">>, <<"B">>, <<"Q">>, <<"A">>, <<"C">>, <<"S">> }

\* A variant whose quadratic curve takes six operands, as the cubic does.
pathStep_quadSix(cmd) ==
    CASE cmd \in { <<"M">>, <<"L">> } -> 3
      [] cmd \in { <<"B">>, <<"Q">> } -> 7
      [] cmd = <<"A">> -> 8
      [] OTHER -> 1

\* The i += n of each case of the switch.
pathStep(cmd) ==
    CASE cmd \in { <<"M">>, <<"L">> } -> 3
      [] cmd = <<"B">> -> 7
      [] cmd = <<"Q">> -> 5
      [] cmd = <<"A">> -> 8
      [] OTHER -> 1

\* The command pushed by the case of tokens[i].
pathCommand(tokens, i) ==
    LET cmd == tokens[i + 1]
        n(k) == Number(tokenAt(tokens, i + k))
    IN  CASE cmd = <<"M">> -> [type |-> "M", x |-> n(1), y |-> n(2)]
          [] cmd = <<"L">> -> [type |-> "L", x |-> n(1), y |-> n(2)]
          [] cmd = <<"B">> -> [type |-> "B", x1 |-> n(1), y1 |-> n(2),
                               x2 |-> n(3), y2 |-> n(4), x |-> n(5), y |-> n(6)]
          [] cmd = <<"Q">> -> [type |-> "Q", x1 |-> n(1), y1 |-> n(2),
                               x |-> n(3), y |-> n(4)]
          [] cmd = <<"A">> -> [type |-> "A", rx |-> n(1), ry |-> n(2),
                               angle |-> n(3),
                               large |-> tokenAt(tokens, i + 4) = <<"1">>,
                               sweep |-> tokenAt(tokens, i + 5) = <<"1">>,
                               x |-> n(6), y |-> n(7)]
          [] OTHER -> [type |-> "C"]

\* The while loop, from index i on.
RECURSIVE parseAbbreviatedData_loop(_, _, _)
parseAbbreviatedData_loop(tokens, i, commands) ==
    IF i >= Len(tokens) THEN commands
    ELSE parseAbbreviatedData_loop(
            tokens, i + pathStep(tokens[i + 1]),
            IF isPathCommand(tokens[i + 1])
            THEN Append(commands, pathCommand(tokens, i))
            ELSE commands)

parseAbbreviatedData(data) ==
    IF data = << >> THEN << >>
    ELSE parseAbbreviatedData_loop(splitSpaces(trim(data)), 0, << >>)

\* ------------------------------------------------------ parseDeltaValues

\* j < count holds for every j: the for loop of a run does not end.
repeatsForever(count) == ~count.nan /\ count.inf /\ count.v > 0

\* The while loop from index i on comes to its end: no run it meets has a
\* for loop that does not end.
RECURSIVE parseDeltaValues_ends(_, _)
parseDeltaValues_ends(tokens, i) ==
    IF i >= Len(tokens) THEN TRUE
    ELSE IF tokens[i + 1] = <<"g">>
    THEN /\ ~repeatsForever(Number(tokenAt(tokens, i + 1)))
         /\ parseDeltaValues_ends(tokens, i + 3)
    ELSE parseDeltaValues_ends(tokens, i + 1)

\* A variant that pushes the delta of a run once.
repeatDelta_once(count, delta) ==
    IF count.nan \/ count.v <= 0 THEN << >> ELSE << delta >>

\* for (let j = 0; j < count; j++) result.push(delta)
repeatDelta(count, delta) ==
    IF count.nan \/ count.v <= 0 THEN << >>
    ELSE [j \in 1..count.v |-> delta]

RECURSIVE parseDeltaValues_loop(_, _, _)
parseDeltaValues_loop(tokens, i, result) ==
    IF i >= Len(tokens) THEN result
    ELSE IF tokens[i + 1] = <<"g">>
    THEN parseDeltaValues_loop(
            tokens, i + 3,
            result \o repeatDelta(Number(tokenAt(tokens, i + 1)),
                                  Number(tokenAt(tokens, i + 2))))
    ELSE parseDeltaValues_loop(tokens, i + 1,
                               Append(result, Number(tokens[i + 1])))

parseDeltaValues(deltaStr) ==
    IF deltaStr = << >> THEN << >>
    ELSE parseDeltaValues_loop(splitSpaces(trim(deltaStr)), 0, << >>)

\* ---------------------------------------------------------------- geometry

\* MM_TO_PT = 2.834645669 in the code.  Lengths on the output page are kept
\* here as whole numbers of the unit MM_TO_PT / 3000 points: one millimetre
\* is 3000 units, and the fractions of the code (0.353, 0.6, 2 / 3) of a
\* whole number of millimetres stay whole.
MM_TO_PT == 3000

\* Math.sign, Math.abs
sign(x) == IF x > 0 THEN 1 ELSE IF x < 0 THEN 0 - 1 ELSE 0
abs(x) == IF x < 0 THEN 0 - x ELSE x

\* Math.sqrt; the arguments met below are perfect squares.
sqrt(n) == CHOOSE r \in 0..n : r * r <= n /\ (r + 1) * (r + 1) > n

\* An optional value: undefined, or the value.
None == [some |-> FALSE]
Some(v) == [some |-> TRUE, v |-> v]

\* parseCTM: the six numbers of the attribute, undefined with fewer.
parseCTM(parts) ==
    IF Len(parts) < 6 THEN None
    ELSE Some([a |-> parts[1], b |-> parts[2], c |-> parts[3],
               d |-> parts[4], e |-> parts[5], f |-> parts[6]])

\* ctmScaleLineWidth: sx = sign(a) * sqrt(a * a + c * c).
ctmScaleLineWidth(lineWidth, ctm) ==
    LET a == ctm.a
        c == ctm.c
        sx == sign(a) * sqrt(a * a + c * c)
    IN  lineWidth * abs(sx)

\* ctmTransformPoint of the path renderer, applyCTM of the text renderer.
ctmTransformPoint(x, y, ctm) ==
    [x |-> ctm.a * x + ctm.c * y + ctm.e,
     y |-> ctm.b * x + ctm.d * y + ctm.f]
applyCTM(ctm, x, y) ==
    [x |-> ctm.a * x + ctm.c * y + ctm.e,
     y |-> ctm.b * x + ctm.d * y + ctm.f]

\* A variant that adds the boundary offset before it applies the transform.
toPdfCoord_offsetFirst(x, y, boundary, pageHeight, ctm) ==
    LET p == IF ctm.some
             THEN ctmTransformPoint(boundary.x + x, boundary.y + y, ctm.v)
             ELSE [x |-> boundary.x + x, y |-> boundary.y + y]
    IN  [x |-> p.x * MM_TO_PT, y |-> (pageHeight - p.y) * MM_TO_PT]

toPdfCoord(x, y, boundary, pageHeight, ctm) ==
    LET p == IF ctm.some THEN ctmTransformPoint(x, y, ctm.v)
             ELSE [x |-> x, y |-> y]
    IN  [x |-> (boundary.x + p.x) * MM_TO_PT,
         y |-> (pageHeight - boundary.y - p.y) * MM_TO_PT]

\* ------------------------------------------------------- parsePathObject

\* parseColor(node) ?? parseColorStr(node.Value): the colour of a colour
\* node that carries a Value, undefined for a node without one (a colour
\* given as a pattern or a shading).
parseColor(node) ==
    IF Has(node, "Value") THEN Some([value |-> node.Value]) ELSE None

\* parsePathObject.  The attributes DashPattern, DashOffset, Join, Cap,
\* MiterLimit and Alpha are left out: they add operators between
\* setLineWidth and the colours, and touch neither a point nor the painting.
parsePathObject(obj) ==
    LET hasFill == Field(obj, "Fill", "") # "false" /\ Has(obj, "FillColor")
        hasStroke == Field(obj, "Stroke", "") # "false"
        abbreviatedData == Field(obj, "AbbreviatedData", << >>)
    IN  [type        |-> "path",
         id          |-> Field(obj, "ID", ""),
         boundary    |-> parseBox(Field(obj, "Boundary", << >>)),
         commands    |-> parseAbbreviatedData(abbreviatedData),
         fillColor   |-> IF Has(obj, "FillColor") THEN parseColor(obj.FillColor)
                         ELSE None,
         strokeColor |-> IF Has(obj, "StrokeColor")
                         THEN parseColor(obj.StrokeColor)
                         ELSE None,
         lineWidth   |-> IF Has(obj, "LineWidth") THEN Some(obj.LineWidth)
                         ELSE None,
         ctm         |-> parseCTM(Field(obj, "CTM", << >>)),
         fill        |-> hasFill,
         stroke      |-> hasStroke]

\* ------------------------------------------------------ renderPathObject

\* An operator of the page's content stream.
Operator(op, args) == [op |-> op, args |-> args]

\* parseColorComponents: the three channels, black by default; each is a
\* number of 255ths.
parseColorComponents(color) ==
    IF color.some THEN color.v.value ELSE <<0, 0, 0>>

\* (lw ?? 0.353) * MM_TO_PT, scaled by the transform when both are given.
pathLineWidth(lw, ctm) ==
    IF ctm.some /\ lw.some THEN ctmScaleLineWidth(lw.v * MM_TO_PT, ctm.v)
    ELSE IF lw.some THEN lw.v * MM_TO_PT
    ELSE (353 * MM_TO_PT) \div 1000

\* The operators that set the colours.
pathColours(pathObj) ==
    (IF pathObj.fill /\ pathObj.fillColor.some
     THEN << Operator("setFillingColor",
                      parseColorComponents(pathObj.fillColor)) >>
     ELSE << >>)
    \o (IF pathObj.stroke
        THEN << Operator("setStrokingColor",
                         parseColorComponents(pathObj.strokeColor)) >>
        ELSE << >>)

\* The operator that paints the path.
pathPaint(pathObj) ==
    IF pathObj.fill /\ pathObj.stroke /\ pathObj.strokeColor.some
    THEN << Operator("fillAndStroke", << >>) >>
    ELSE IF pathObj.fill THEN << Operator("fill", << >>) >>
    ELSE IF pathObj.stroke THEN << Operator("stroke", << >>) >>
    ELSE << >>

\* -------------------------------------------------------- arcToBeziers

\* An angle, kept as the quarter turn it lies in: exactly q quarter turns,
\* or strictly between q and q + 1 quarter turns.
Angle(q, exact) == [q |-> q, exact |-> exact]
negate(a) ==
    IF a.exact THEN Angle(0 - a.q, TRUE) ELSE Angle(0 - a.q - 1, FALSE)
isPositive(a) == a.q > 0 \/ (a.q = 0 /\ ~a.exact)
isNegative(a) == a.q < 0
fullTurn(a, turns) == Angle(a.q + 4 * turns, a.exact)
\* Math.ceil(Math.abs(a) / (Math.PI / 2))
ceilQuarters(a) ==
    LET size == IF isNegative(a) THEN negate(a) ELSE a
    IN  IF size.exact THEN size.q ELSE size.q + 1

\* Step 1: lambda as a fraction, for a circle or for an ellipse that is not
\* rotated (the arcs met below).  lambda is a ratio of lengths: a factor
\* common to the lengths is taken out before they are squared.
lambda(x0, y0, rx, ry, x, y) ==
    LET all == {x0 - x, y0 - y, rx, ry}
        by == IF \A v \in all : v % MM_TO_PT = 0 THEN MM_TO_PT ELSE 1
        dx == (x0 - x) \div by
        dy == (y0 - y) \div by
        rX == abs(rx) \div by
        rY == abs(ry) \div by
    IN  [num |-> dx * dx * rY * rY + dy * dy * rX * rX,
         den |-> 4 * rX * rX * rY * rY]

\* Step 4, vectorAngle of the two radii: the cosine is 1 - 2 * lambda once
\* the radii are large enough, and the sign is the sign of sq.
vectorAngle(lam, sqNegative) ==
    LET acos == IF lam.num >= lam.den THEN Angle(2, TRUE)
                ELSE IF 2 * lam.num > lam.den THEN Angle(1, FALSE)
                ELSE IF 2 * lam.num = lam.den THEN Angle(1, TRUE)
                ELSE Angle(0, FALSE)
    IN  IF sqNegative THEN negate(acos) ELSE acos

\* A variant that makes one curve of every arc.
arcSegments_single(dTheta) == 1

\* Step 5: Math.max(1, Math.ceil(Math.abs(dTheta) / (Math.PI / 2)))
arcSegments(dTheta) ==
    IF ceilQuarters(dTheta) > 1 THEN ceilQuarters(dTheta) ELSE 1

\* arcToBeziers in exact arithmetic: the curves of the arc, each with the
\* sweep of the arc, the number of curves it is one of, and its end point
\* when that is the end point of the arc.  The control points are not
\* computed.  Equal end points make sq the quotient of a number by zero and
\* every angle NaN: the loop makes no turn.
arcToBeziers(x0, y0, rx, ry, angle, largeArcFlag, sweepFlag, x, y) ==
    IF rx = 0 \/ ry = 0 THEN << >>
    ELSE IF x0 = x /\ y0 = y THEN << >>
    ELSE LET lam == lambda(x0, y0, rx, ry, x, y)
             sqNegative == lam.num < lam.den /\ largeArcFlag = sweepFlag
             turned == vectorAngle(lam, sqNegative)
             dTheta == IF ~sweepFlag /\ isPositive(turned)
                       THEN fullTurn(turned, 0 - 1)
                       ELSE IF sweepFlag /\ isNegative(turned)
                       THEN fullTurn(turned, 1)
                       ELSE turned
             segments == arcSegments(dTheta)
         IN  [i \in 1..segments |->
                 [i |-> i, segments |-> segments, dTheta |-> dTheta,
                  end |-> IF i = segments THEN <<x, y>> ELSE << >>]]

\* The operators of the curves of an arc.
arcOperators(beziers) ==
    [i \in 1..Len(beziers) |->
        Operator("appendBezierCurve", << beziers[i] >>)]

\* The cubic curve of a quadratic one: its two control points.
quadToCubic_half(p0, p1, p2) ==
    [cp1x |-> p0.x + (p1.x - p0.x) \div 2,
     cp1y |-> p0.y + (p1.y - p0.y) \div 2,
     cp2x |-> p2.x + (p1.x - p2.x) \div 2,
     cp2y |-> p2.y + (p1.y - p2.y) \div 2]

quadToCubic(p0, p1, p2) ==
    [cp1x |-> p0.x + (2 * (p1.x - p0.x)) \div 3,
     cp1y |-> p0.y + (2 * (p1.y - p0.y)) \div 3,
     cp2x |-> p2.x + (2 * (p1.x - p2.x)) \div 3,
     cp2y |-> p2.y + (2 * (p1.y - p2.y)) \div 3]

\* One turn of the loop over the commands: the operators pushed, the
\* current point and the start of the subpath.
pathTurn(cmd, st, boundary, pageHeight, ctm) ==
    LET at(x, y) == toPdfCoord(x.v, y.v, boundary, pageHeight, ctm)
    IN  CASE cmd.type = "M" ->
               LET p == at(cmd.x, cmd.y)
               IN  [ops |-> Append(st.ops, Operator("moveTo", <<p.x, p.y>>)),
                    cur |-> p, move |-> p]
          [] cmd.type = "L" ->
               LET p == at(cmd.x, cmd.y)
               IN  [ops |-> Append(st.ops, Operator("lineTo", <<p.x, p.y>>)),
                    cur |-> p, move |-> st.move]
          [] cmd.type = "B" ->
               LET p1 == at(cmd.x1, cmd.y1)
                   p2 == at(cmd.x2, cmd.y2)
                   p == at(cmd.x, cmd.y)
               IN  [ops |-> Append(st.ops,
                        Operator("appendBezierCurve",
                                 <<p1.x, p1.y, p2.x, p2.y, p.x, p.y>>)),
                    cur |-> p, move |-> st.move]
          [] cmd.type = "Q" ->
               LET qControl == at(cmd.x1, cmd.y1)
                   qEnd == at(cmd.x, cmd.y)
                   cp == quadToCubic(st.cur, qControl, qEnd)
               IN  [ops |-> Append(st.ops,
                        Operator("appendBezierCurve",
                                 <<cp.cp1x, cp.cp1y, cp.cp2x, cp.cp2y,
                                   qEnd.x, qEnd.y>>)),
                    cur |-> qEnd, move |-> st.move]
          [] cmd.type = "A" ->
               LET arcEnd == at(cmd.x, cmd.y)
                   arcRx == cmd.rx.v * MM_TO_PT
                   arcRy == cmd.ry.v * MM_TO_PT
                   beziers == arcToBeziers(st.cur.x, st.cur.y, arcRx, arcRy,
                                           cmd.angle.v, cmd.large, cmd.sweep,
                                           arcEnd.x, arcEnd.y)
               IN  IF Len(beziers) > 0
                   THEN [ops |-> st.ops \o arcOperators(beziers),
                         cur |-> arcEnd, move |-> st.move]
                   ELSE [ops |-> Append(st.ops,
                             Operator("lineTo", <<arcEnd.x, arcEnd.y>>)),
                         cur |-> arcEnd, move |-> st.move]
          [] OTHER ->
               [ops |-> Append(st.ops, Operator("closePath", << >>)),
                cur |-> st.move, move |-> st.move]

RECURSIVE pathTurns(_, _, _, _, _, _)
pathTurns(commands, k, st, boundary, pageHeight, ctm) ==
    IF k > Len(commands) THEN st.ops
    ELSE pathTurns(commands, k + 1,
                   pathTurn(commands[k], st, boundary, pageHeight, ctm),
                   boundary, pageHeight, ctm)

\* renderPathObject: the operators handed to page.pushOperators, none for a
\* path without commands.
pathOperators(pathObj, pageHeight) ==
    LET origin == [x |-> 0, y |-> 0]
    IN  IF Len(pathObj.commands) = 0 THEN << >>
        ELSE << Operator("pushGraphicsState", << >>),
                Operator("setLineWidth",
                         << pathLineWidth(pathObj.lineWidth, pathObj.ctm) >>) >>
             \o pathColours(pathObj)
             \o pathTurns(pathObj.commands, 1,
                          [ops |-> << >>, cur |-> origin, move |-> origin],
                          pathObj.boundary, pageHeight, pathObj.ctm)
             \o pathPaint(pathObj)
             \o << Operator("popGraphicsState", << >>) >>

\* ------------------------------------------------------- parseTextObject

\* parseTextCodes: a TextCode node without text is dropped.
RECURSIVE parseTextCodes(_)
parseTextCodes(nodes) ==
    IF Len(nodes) = 0 THEN << >>
    ELSE LET tc == nodes[1]
             text == Field(tc, "text", << >>)
         IN  (IF text = << >> THEN << >>
              ELSE << [x      |-> IF Has(tc, "X") THEN Some(tc.X) ELSE None,
                       y      |-> IF Has(tc, "Y") THEN Some(tc.Y) ELSE None,
                       deltaX |-> parseDeltaValues(Field(tc, "DeltaX", << >>)),
                       deltaY |-> parseDeltaValues(Field(tc, "DeltaY", << >>)),
                       text   |-> text] >>)
             \o parseTextCodes(Tail(nodes))

\* parseTextObject, without the colours, the weight and the opacity.
parseTextObject(obj) ==
    [type      |-> "text",
     id        |-> Field(obj, "ID", ""),
     boundary  |-> parseBox(Field(obj, "Boundary", << >>)),
     font      |-> Field(obj, "Font", ""),
     size      |-> Field(obj, "Size", 10),
     ctm       |-> parseCTM(Field(obj, "CTM", << >>)),
     textCodes |-> parseTextCodes(Field(obj, "TextCode", << >>))]

\* ------------------------------------------------------ renderTextObject

\* text.replace(/pattern/g, replacement)
RECURSIVE replaceAll(_, _, _)
replaceAll(s, pattern, replacement) ==
    IF Len(s) = 0 THEN << >>
    ELSE IF startsWith(s, pattern)
    THEN replacement
            \o replaceAll(SubSeq(s, Len(pattern) + 1, Len(s)), pattern,
                          replacement)
    ELSE << s[1] >> \o replaceAll(Tail(s), pattern, replacement)

decodeHtmlEntities(text) ==
    LET lt == replaceAll(text, <<"&", "l", "t", ";">>, << "<" >>)
        gt == replaceAll(lt, <<"&", "g", "t", ";">>, << ">" >>)
        amp == replaceAll(gt, <<"&", "a", "m", "p", ";">>, << "&" >>)
        nbsp == replaceAll(amp, <<"&", "n", "b", "s", "p", ";">>, << " " >>)
        quot == replaceAll(nbsp, <<"&", "q", "u", "o", "t", ";">>, << "\"" >>)
        apos == replaceAll(quot, <<"&", "a", "p", "o", "s", ";">>, << "'" >>)
        copy == replaceAll(apos, <<"&", "c", "o", "p", "y", ";">>, << "U+00A9" >>)
    IN  replaceAll(copy, << "\n" >>, << >>)

\* The font size in output units: scaled by sqrt(b * b + d * d) of the
\* transform when that is positive.
textFontSize(size, ctm) ==
    LET scaleY == sqrt(ctm.v.b * ctm.v.b + ctm.v.d * ctm.v.d)
    IN  IF ctm.some /\ scaleY > 0 THEN size * scaleY * MM_TO_PT
        ELSE size * MM_TO_PT

\* A variant that transforms the deltas under every transform.
applyCTMToDelta_always(dx, dy, ctm) ==
    [dx |-> IF dx # 0 THEN applyCTM(ctm, dx, 0).x ELSE dx,
     dy |-> IF dy # 0 THEN applyCTM(ctm, 0, dy).y ELSE dy]

\* applyCTMToDelta: Math.atan2(-b, d) is 0 exactly when b is 0 and d is not
\* negative; a delta of 0 and a delta under a rotation are kept as they are.
applyCTMToDelta(dx, dy, ctm) ==
    LET unrotated == ctm.b = 0 /\ ctm.d >= 0
    IN  [dx |-> IF dx # 0 /\ unrotated THEN applyCTM(ctm, dx, 0).x ELSE dx,
         dy |-> IF dy # 0 /\ unrotated THEN applyCTM(ctm, 0, dy).y ELSE dy]

\* page.drawText(text, {x, y, size, font}) as it is left on the page.
DrawText(text, x, y, size) ==
    [op |-> "drawText", text |-> text, x |-> x, y |-> y, size |-> size]

\* page.drawText throws when the font cannot encode a glyph of the text;
\* every font draws the placeholder.
drawTextThrows(font, text) == \E i \in 1..Len(text) : text[i] \in font.missing
glyphOrPlaceholder(font, char) == IF char \in font.missing THEN "?" ELSE char

\* deltas[Math.min(i, deltas.length - 1)] ?? 0
deltaAt(deltas, i) ==
    LET index == IF i < Len(deltas) - 1 THEN i ELSE Len(deltas) - 1
    IN  deltas[index + 1].v

\* The advance after glyph i of a run drawn glyph by glyph: [dx, dy] in
\* millimetres.  fontSize is a whole multiple of 5 * MM_TO_PT below.
glyphAdvance(tc, i, fontSize, ctm) ==
    LET hasDeltaX == Len(tc.deltaX) > 0
        hasDeltaY == Len(tc.deltaY) > 0
        rawDx == IF hasDeltaX THEN deltaAt(tc.deltaX, i)
                 ELSE (fontSize * 6) \div (10 * MM_TO_PT)
        rawDy == IF hasDeltaY THEN deltaAt(tc.deltaY, i) ELSE 0
    IN  IF ctm.some THEN applyCTMToDelta(rawDx, rawDy, ctm.v)
        ELSE [dx |-> rawDx, dy |-> rawDy]

\* The loop over the glyphs of a run that has deltas, from glyph i on.
RECURSIVE glyphsWithDeltas(_, _, _, _, _, _, _, _)
glyphsWithDeltas(tc, chars, i, currentX, currentY, fontSize, ctm, font) ==
    IF i >= Len(chars) THEN << >>
    ELSE LET adv == glyphAdvance(tc, i, fontSize, ctm)
         IN  << DrawText(<< glyphOrPlaceholder(font, chars[i + 1]) >>,
                         currentX, currentY - fontSize, fontSize) >>
             \o glyphsWithDeltas(tc, chars, i + 1,
                                 currentX + adv.dx * MM_TO_PT,
                                 currentY - adv.dy * MM_TO_PT,
                                 fontSize, ctm, font)

\* The loop of the catch clause: glyph by glyph, 0.6 of the font size apart.
RECURSIVE glyphsEstimated(_, _, _, _, _, _)
glyphsEstimated(chars, i, currentX, startY, fontSize, font) ==
    IF i >= Len(chars) THEN << >>
    ELSE << DrawText(<< glyphOrPlaceholder(font, chars[i + 1]) >>,
                     currentX, startY - fontSize, fontSize) >>
         \o glyphsEstimated(chars, i + 1, currentX + (fontSize * 6) \div 10,
                            startY, fontSize, font)

\* startX and startY of a run.
textStart(tc, boundary, pageHeight, ctm, fontSize) ==
    LET textX == IF tc.x.some THEN tc.x.v ELSE 0
        textY == IF tc.y.some THEN tc.y.v ELSE 0
        p == IF ctm.some THEN applyCTM(ctm.v, textX, textY)
             ELSE [x |-> textX, y |-> textY]
    IN  [x |-> (boundary.x + p.x) * MM_TO_PT,
         y |-> (pageHeight - boundary.y - p.y) * MM_TO_PT]

\* The body of the loop over the text codes.
textCodeOperators(tc, boundary, fontSize, ctm, font, pageHeight) ==
    LET text == decodeHtmlEntities(tc.text)
        start == textStart(tc, boundary, pageHeight, ctm, fontSize)
    IN  IF text = << >> THEN << >>
        ELSE IF Len(tc.deltaX) > 0 \/ Len(tc.deltaY) > 0
        THEN glyphsWithDeltas(tc, text, 0, start.x, start.y, fontSize, ctm, font)
        ELSE IF ~drawTextThrows(font, text)
        THEN << DrawText(text, start.x, start.y - fontSize, fontSize) >>
        ELSE glyphsEstimated(text, 0, start.x, start.y, fontSize, font)

\* renderTextObject: what the calls of page.drawText leave on the page.
RECURSIVE textCodesOperators(_, _, _, _, _, _)
textCodesOperators(textCodes, boundary, fontSize, ctm, font, pageHeight) ==
    IF Len(textCodes) = 0 THEN << >>
    ELSE textCodeOperators(textCodes[1], boundary, fontSize, ctm, font,
                           pageHeight)
         \o textCodesOperators(Tail(textCodes), boundary, fontSize, ctm, font,
                               pageHeight)

textOperators(textObj, font, pageHeight) ==
    textCodesOperators(textObj.textCodes, textObj.boundary,
                       textFontSize(textObj.size, textObj.ctm), textObj.ctm,
                       font, pageHeight)

\* ------------------------------------------------------------------ state

VARIABLES
    \* the process and its machine
    fontkitInstalled,    \* require('@pdf-lib/fontkit') succeeds
    systemFonts,         \* layout of the system font directories
    fontkitRegistered,   \* module-level flag of pdf-renderer.ts
    cachedCJKFontPath,   \* module-level cache of findSystemCJKFont
    cachedCJKFontBytes,  \* module-level cache of getCJKFontBytes
    fontScans,           \* scans of the system font directories so far
    brandingShown,       \* _brandingShown of index.ts
    calls,               \* API calls started so far
    \* the call in progress, or the last one made
    pc,                  \* where the call stands
    api,                 \* "convert" or "parse"
    input,               \* the first argument
    arguments,           \* the second and third argument of convert
    outputPath,          \* convert's local
    options,             \* convert's local
    doc,                 \* the parsed Document
    result,              \* the promise the call returned
    written,             \* files written by the call
    \* locals of renderToPdf / renderToPdfSafe
    hasFontkit,
    docFontkit,          \* fontkit is registered on this call's pdfDoc
    cjkBytes,
    cjkFont,
    fontCache,
    pdfPages,            \* pages of pdfDoc with what was drawn on them
    pi,                  \* pages taken from doc.pages so far
    oi,                  \* objects of the current page dispatched so far
    dispatched,          \* ids of the objects dispatched in this pass
    failed,              \* ids of the objects whose draw call threw in this pass
    saveOutcome,         \* how pdfDoc.save() of renderToPdf ended
    safeSaveOutcome,     \* how pdfDoc.save() of renderToPdfSafe ended
    pdfBytes,            \* what renderToPdf resolved with
    \* one call of a function of the parser or of the drawing code
    unit                 \* the function, its arguments and what it returned

\* No function is being called on its own.
NoUnit == [fn |-> "none"]

processVars ==
    << fontkitInstalled, systemFonts, fontkitRegistered, cachedCJKFontPath,
       cachedCJKFontBytes, fontScans, brandingShown, calls, unit >>
callVars == << api, input, arguments, outputPath, options, doc, written >>
fontVars == << hasFontkit, docFontkit, cjkBytes, cjkFont >>
loopVars == << pdfPages, pi, oi, dispatched, failed >>
vars ==
    << processVars, callVars, fontVars, loopVars, pc, result, fontCache,
       saveOutcome, safeSaveOutcome, pdfBytes >>

\* Every variable of the process and of its calls.
programVars ==
    << fontkitInstalled, systemFonts, fontkitRegistered, cachedCJKFontPath,
       cachedCJKFontBytes, fontScans, brandingShown, calls, callVars, fontVars,
       loopVars, pc, result, fontCache, saveOutcome, safeSaveOutcome,
       pdfBytes >>

\* The process before its first call.
ProcessInit ==
    /\ fontkitInstalled \in BOOLEAN
    /\ systemFonts \in SystemLayouts
    /\ fontkitRegistered = FALSE
    /\ cachedCJKFontPath = PathNull
    /\ cachedCJKFontBytes = Null
    /\ fontScans = 0
    /\ brandingShown = FALSE
    /\ calls = 0
    /\ pc = "idle"
    /\ api = "none"
    /\ input = "none"
    /\ arguments = <<Undefined, Undefined>>
    /\ outputPath = Undefined
    /\ options = EmptyOptions
    /\ doc = NoDocument
    /\ result = Pending
    /\ written = << >>
    /\ hasFontkit = FALSE
    /\ docFontkit = FALSE
    /\ cjkBytes = Null
    /\ cjkFont = NoFont
    /\ fontCache = << >>
    /\ pdfPages = << >>
    /\ pi = 0
    /\ oi = 0
    /\ dispatched = << >>
    /\ failed = << >>
    /\ saveOutcome = "none"
    /\ safeSaveOutcome = "none"
    /\ pdfBytes = NoBytes

Init == ProcessInit /\ unit = NoUnit

\* The locals of a render pass as a new call, or a new pass, finds them.
freshLocals ==
    /\ hasFontkit' = FALSE
    /\ docFontkit' = FALSE
    /\ cjkBytes' = Null
    /\ cjkFont' = NoFont
    /\ fontCache' = << >>
    /\ pdfPages' = << >>
    /\ pi' = 0
    /\ oi' = 0
    /\ dispatched' = << >>
    /\ failed' = << >>

\* The archive of the call in progress.
callArchive == extractOfd(input).archive

\* ---------------------------------------------------------------- actions

\* convert(input, outputOrOptions, maybeOptions) up to the call of
\* renderToPdf: the arguments, the branding line, extractOfd, parseOfdXml.
Convert(in, outputOrOptions, maybeOptions) ==
    LET args == parseArguments(outputOrOptions, maybeOptions)
        extracted == extractOfd(in)
    IN  /\ pc = "idle"
        /\ calls < MaxCalls
        /\ calls' = calls + 1
        /\ api' = "convert"
        /\ input' = in
        /\ arguments' = <<outputOrOptions, maybeOptions>>
        /\ outputPath' = args.outputPath
        /\ options' = args.options
        /\ brandingShown' = showBranding(brandingShown, args.options.silent)
        /\ written' = << >>
        /\ saveOutcome' = "none"
        /\ safeSaveOutcome' = "none"
        /\ pdfBytes' = NoBytes
        /\ freshLocals
        /\ IF extracted.threw
           THEN /\ doc' = NoDocument
                /\ result' = Rejected("not a ZIP archive")
                /\ pc' = "settled"
           ELSE IF Parsed[in].threw
           THEN /\ doc' = NoDocument
                /\ result' = Rejected(Parsed[in].error)
                /\ pc' = "settled"
           ELSE /\ doc' = Parsed[in].doc
                /\ result' = Pending
                /\ pc' = "create"
        /\ UNCHANGED << unit, fontkitInstalled, systemFonts, fontkitRegistered,
                        cachedCJKFontPath, cachedCJKFontBytes, fontScans >>

\* parse(input): extractOfd, then parseOfdXml.
Parse(in) ==
    LET extracted == extractOfd(in)
    IN  /\ pc = "idle"
        /\ calls < MaxCalls
        /\ calls' = calls + 1
        /\ api' = "parse"
        /\ input' = in
        /\ arguments' = <<Undefined, Undefined>>
        /\ outputPath' = Undefined
        /\ options' = EmptyOptions
        /\ written' = << >>
        /\ saveOutcome' = "none"
        /\ safeSaveOutcome' = "none"
        /\ pdfBytes' = NoBytes
        /\ freshLocals
        /\ pc' = "settled"
        /\ IF extracted.threw
           THEN /\ doc' = NoDocument
                /\ result' = Rejected("not a ZIP archive")
           ELSE IF Parsed[in].threw
           THEN /\ doc' = NoDocument
                /\ result' = Rejected(Parsed[in].error)
           ELSE /\ doc' = Parsed[in].doc
                /\ result' = ResolvedDocument(Parsed[in].doc)
        /\ UNCHANGED << unit, fontkitInstalled, systemFonts, fontkitRegistered,
                        cachedCJKFontPath, cachedCJKFontBytes, fontScans,
                        brandingShown >>

\* registerFontkit(pdfDoc): [hasFontkit, docFontkit, fontkitRegistered].
\* Once the module-level flag is set the function returns true without
\* registering fontkit on the document it was given.
registerFontkit(registered, installed) ==
    IF registered
    THEN [hasFontkit |-> TRUE, docFontkit |-> FALSE, fontkitRegistered |-> TRUE]
    ELSE IF installed
    THEN [hasFontkit |-> TRUE, docFontkit |-> TRUE, fontkitRegistered |-> TRUE]
    ELSE [hasFontkit |-> FALSE, docFontkit |-> FALSE, fontkitRegistered |-> FALSE]

\* renderToPdf, lines 284-307: the new document, fontkit, the default font
\* and the CJK fallback font.
RenderCreate ==
    LET fk == registerFontkit(fontkitRegistered, fontkitInstalled)
        cjk == getCJKFontBytes(systemFonts, options.fontDir,
                               cachedCJKFontBytes, cachedCJKFontPath)
    IN  /\ pc = "create"
        /\ fontkitRegistered' = fk.fontkitRegistered
        /\ hasFontkit' = fk.hasFontkit
        /\ docFontkit' = fk.docFontkit
        /\ IF fk.hasFontkit
           THEN /\ cjkBytes' = cjk.bytes
                /\ cachedCJKFontBytes' = cjk.cachedBytes
                /\ cachedCJKFontPath' = cjk.cachedPath
                /\ fontScans' = fontScans + cjk.scans
                /\ cjkFont' = IF cjk.bytes # Null
                                 /\ ~embedFontThrows(fk.docFontkit, cjk.bytes)
                              THEN CjkFont(cjk.bytes)
                              ELSE NoFont
           ELSE /\ cjkBytes' = Null
                /\ cjkFont' = NoFont
                /\ UNCHANGED << cachedCJKFontBytes, cachedCJKFontPath,
                                fontScans >>
        /\ pc' = "fonts"
        /\ UNCHANGED << unit, fontkitInstalled, systemFonts, brandingShown, calls,
                        callVars, loopVars, result, fontCache, saveOutcome,
                        safeSaveOutcome, pdfBytes >>

\* The sets of fonts whose built-in font fails to embed in one pass.
stdEmbedFailures(fonts) ==
    {S \in SUBSET {fonts[i].id : i \in 1..Len(fonts)} :
        Cardinality(S) <= MaxStdEmbedFailures}

\* renderToPdf, lines 309-363: one font per entry of doc.fonts, in the
\* order of the map.  (embeddedFontCache only spares a second embedding of
\* the same file; it changes no result.)
ResolveFonts ==
    /\ pc = "fonts"
    /\ \E failing \in stdEmbedFailures(doc.fonts) :
          fontCache' =
              [i \in 1..Len(doc.fonts) |->
                  [id   |-> doc.fonts[i].id,
                   font |-> resolveFont(doc.fonts[i], callArchive, hasFontkit,
                                        docFontkit, cjkFont,
                                        doc.fonts[i].id \in failing)]]
    /\ pc' = IF Len(doc.pages) = 0 THEN "save" ELSE "page"
    /\ UNCHANGED << processVars, callVars, fontVars, loopVars, result,
                    saveOutcome, safeSaveOutcome, pdfBytes >>

\* The head of the page loop: pdfDoc.addPage for the next page of doc.pages.
addPage(here, there) ==
    /\ pc = here
    /\ pi < Len(doc.pages)
    /\ pdfPages' = Append(pdfPages, newPage(doc.pages[pi + 1]))
    /\ pi' = pi + 1
    /\ oi' = 0
    /\ pc' = there
    /\ UNCHANGED << processVars, callVars, fontVars, dispatched, failed,
                    result, fontCache, saveOutcome, safeSaveOutcome, pdfBytes >>

\* One turn of the object loop: the next object of the page is dispatched
\* to its draw call inside try / catch.
renderObject(here) ==
    LET objects == pageObjects(doc.pages[pi])
        obj == objects[oi + 1]
    IN  /\ pc = here
        /\ oi < Len(objects)
        /\ \E drawn \in drawOutcomes(obj, Len(failed) < MaxObjectFailures) :
              LET done == drawObject(obj, drawn, fontCache, DefaultFont,
                                     doc.images, callArchive)
              IN  /\ pdfPages' = [pdfPages EXCEPT ![pi].ops = @ \o done.ops]
                  /\ failed' = IF done.threw THEN Append(failed, obj.id) ELSE failed
                  /\ oi' = nextObjectIndex(oi, done.threw, Len(objects))
        /\ dispatched' = Append(dispatched, obj.id)
        /\ UNCHANGED << processVars, callVars, fontVars, pi, pc, result,
                        fontCache, saveOutcome, safeSaveOutcome, pdfBytes >>

\* A variant that leaves the page loop after the first page.
finishPage_firstPageOnly(here, more, last, watermark) ==
    /\ pc = here
    /\ oi >= Len(pageObjects(doc.pages[pi]))
    /\ pdfPages' = IF watermark
                   THEN [pdfPages EXCEPT ![pi].ops = Append(@, WatermarkOp)]
                   ELSE pdfPages
    /\ pc' = last
    /\ UNCHANGED << processVars, callVars, fontVars, pi, oi, dispatched,
                    failed, result, fontCache, saveOutcome, safeSaveOutcome,
                    pdfBytes >>

\* The end of a turn of the page loop, after the last object of the page.
finishPage(here, more, last, watermark) ==
    /\ pc = here
    /\ oi >= Len(pageObjects(doc.pages[pi]))
    /\ pdfPages' = IF watermark
                   THEN [pdfPages EXCEPT ![pi].ops = Append(@, WatermarkOp)]
                   ELSE pdfPages
    /\ pc' = IF pi < Len(doc.pages) THEN more ELSE last
    /\ UNCHANGED << processVars, callVars, fontVars, pi, oi, dispatched,
                    failed, result, fontCache, saveOutcome, safeSaveOutcome,
                    pdfBytes >>

\* renderToPdf, lines 366-408.
AddPage == addPage("page", "objects")
RenderObject == renderObject("objects")
FinishPage == finishPage("objects", "page", "save", options.watermark)

\* renderToPdf, lines 412-418: return pdfDoc.save() inside try.  The call
\* either returns a promise that fulfils, returns a promise that rejects,
\* or throws before it returns a promise.  The promise is returned without
\* await, so only the throw reaches the catch clause; a rejection settles
\* the promise of renderToPdf, and with it the one of convert.
Save ==
    /\ pc = "save"
    /\ \/ /\ saveOutcome' = "ok"
          /\ pdfBytes' = serialize(pdfPages)
          /\ pc' = "deliver"
          /\ UNCHANGED << result, fontVars, loopVars, fontCache >>
       \/ /\ saveOutcome' = "reject"
          /\ result' = Rejected("save failed")
          /\ pc' = "settled"
          /\ freshLocals
          /\ UNCHANGED pdfBytes
       \/ /\ saveOutcome' = "throw"
          /\ pc' = "safeFonts"
          /\ freshLocals
          /\ UNCHANGED << result, pdfBytes >>
    /\ UNCHANGED << processVars, callVars, safeSaveOutcome >>

\* renderToPdfSafe, lines 430-445: a new document without fontkit, and a
\* built-in font per entry of doc.fonts.
SafeResolveFonts ==
    /\ pc = "safeFonts"
    /\ \E failing \in stdEmbedFailures(doc.fonts) :
          fontCache' =
              [i \in 1..Len(doc.fonts) |->
                  [id   |-> doc.fonts[i].id,
                   font |-> resolveFontSafe(doc.fonts[i],
                                            doc.fonts[i].id \in failing)]]
    /\ pc' = IF Len(doc.pages) = 0 THEN "safeSave" ELSE "safePage"
    /\ UNCHANGED << processVars, callVars, fontVars, loopVars, result,
                    saveOutcome, safeSaveOutcome, pdfBytes >>

\* renderToPdfSafe, lines 447-475: the same loops, without the watermark.
SafeAddPage == addPage("safePage", "safeObjects")
SafeRenderObject == renderObject("safeObjects")
SafeFinishPage == finishPage("safeObjects", "safePage", "safeSave", FALSE)

\* renderToPdfSafe, line 477: return pdfDoc.save(); nothing catches here.
SafeSave ==
    /\ pc = "safeSave"
    /\ \/ /\ safeSaveOutcome' = "ok"
          /\ pdfBytes' = serialize(pdfPages)
          /\ pc' = "deliver"
          /\ UNCHANGED << result, fontVars, loopVars, fontCache >>
       \/ /\ safeSaveOutcome' = "failed"
          /\ result' = Rejected("save failed")
          /\ pc' = "settled"
          /\ freshLocals
          /\ UNCHANGED pdfBytes
    /\ UNCHANGED << processVars, callVars, saveOutcome >>

\* convert, lines 94-104: write the file, or return the bytes.
Deliver ==
    /\ pc = "deliver"
    /\ IF truthyPath(outputPath)
       THEN /\ written' = Append(written,
                                 [path |-> outputPath.v, bytes |-> pdfBytes])
            /\ result' = ResolvedVoid
       ELSE /\ written' = written
            /\ result' = ResolvedBytes(pdfBytes)
    /\ pc' = "settled"
    /\ freshLocals
    /\ UNCHANGED << processVars, api, input, arguments, outputPath, options,
                    doc, saveOutcome, safeSaveOutcome, pdfBytes >>

\* The caller takes the settled promise: the call is over, its locals are
\* gone, and the process is free to make its next call.
Return ==
    /\ pc = "settled"
    /\ pc' = "idle"
    /\ api' = "none"
    /\ input' = "none"
    /\ arguments' = <<Undefined, Undefined>>
    /\ outputPath' = Undefined
    /\ options' = EmptyOptions
    /\ doc' = NoDocument
    /\ result' = Pending
    /\ written' = << >>
    /\ saveOutcome' = "none"
    /\ safeSaveOutcome' = "none"
    /\ pdfBytes' = NoBytes
    /\ UNCHANGED << processVars, fontVars, loopVars, fontCache >>

Next ==
    \/ \E in \in Inputs, form \in CallForms : Convert(in, form[1], form[2])
    \/ \E in \in Inputs : Parse(in)
    \/ RenderCreate
    \/ ResolveFonts
    \/ AddPage
    \/ RenderObject
    \/ FinishPage
    \/ Save
    \/ SafeResolveFonts
    \/ SafeAddPage
    \/ SafeRenderObject
    \/ SafeFinishPage
    \/ SafeSave
    \/ Deliver
    \/ Return

Spec == Init /\ [][Next]_vars

\* ======================================================= function calls
\* A second specification: one call of a function of the page parser or of
\* the drawing code, on arguments drawn from the sets below; the process
\* makes no API call.

\* Tokens of a command string or of a delta string, per input.
MaxTokens == 3

\* A node attribute that is present or absent.
attribute(name, present, value) == IF present THEN name :> value ELSE << >>

\* Every string of at most n tokens of the set, one space apart.
tokenStrings(tokens, n) ==
    { join(seq, " ") : seq \in UNION { [1..k -> tokens] : k \in 0..n } }

PathTokens ==
    { <<"M">>, <<"L">>, <<"B">>, <<"Q">>, <<"A">>, <<"C">>, <<"S">>,
      <<"1">>, <<"2", "5">>, <<"x">> }

\* Command strings: a polygon with a cubic curve; a quadratic curve, a
\* degenerate arc, an arc and the second close letter; a quadratic curve, a
\* half circle, the large arc of a wide circle and an arc that ends where it
\* starts; commands between tabs, line ends and stray tokens; a string of
\* white space.
PathDataSamples ==
    { <<"M", " ", "0", " ", "0", " ", "L", " ", "1", "0", " ", "0", " ", "B", " ", "1", "0", " ", "5", " ", "1", "5", " ", "1", "0", " ", "2", "0", " ", "1", "0", " ", "C">>,
      <<"M", " ", "1", " ", "2", " ", "Q", " ", "4", " ", "5", " ", "7", " ", "8", " ", "A", " ", "0", " ", "5", " ", "0", " ", "1", " ", "0", " ", "9", " ", "9", " ", "A", " ", "3", " ", "3", " ", "3", "0", " ", "0", " ", "1", " ", "1", "2", " ", "1", "2", " ", "S">>,
      <<"M", " ", "0", " ", "0", " ", "Q", " ", "1", " ", "2", " ", "2", " ", "0", " ", "A", " ", "1", " ", "1", " ", "0", " ", "0", " ", "1", " ", "4", " ", "0", " ", "A", " ", "1", "1", " ", "1", "1", " ", "0", " ", "1", " ", "0", " ", "7", " ", "3", " ", "A", " ", "5", " ", "5", " ", "0", " ", "0", " ", "1", " ", "7", " ", "3", " ", "C">>,
      << " ", "M", "\t", "3", " ", " ", "3", "\n", "z", " ", "L", " ", "6",
         " ", "6", " ", "7", " " >>,
      << " ", " " >> }

PathDataInputs == tokenStrings(PathTokens, MaxTokens) \cup PathDataSamples

DeltaTokens ==
    { <<"g">>, <<"3">>, <<"1", "0">>, <<"5">>, <<"0">>, <<"-", "1">>, <<"x">>,
      <<"I", "n", "f", "i", "n", "i", "t", "y">> }

DeltaSamples ==
    { <<"g", " ", "3", " ", "1", "0", " ", "5">>, <<"2", " ", "g", " ", "2", " ", "7", " ", "g", " ", "1", " ", "4", " ", "9">>,
      << " ", "g", "\t", "2", "\n", "6", " " >>, << " " >> }

DeltaInputs == tokenStrings(DeltaTokens, MaxTokens) \cup DeltaSamples

\* The CTM attribute: absent, too short, the identity, a scaling with a
\* translation, a quarter turn scaled by 3, a rotation scaled by 5, a mirror
\* image, and an image turned upside down.
CtmSamples ==
    { << >>, <<1, 0, 0>>, <<1, 0, 0, 1, 0, 0>>, <<2, 0, 0, 2, 1, 3>>,
      <<0, 0 - 3, 3, 0, 5, 6>>, <<3, 0 - 4, 4, 3, 0, 0>>,
      <<0 - 2, 0, 0, 2, 50, 0>>, <<1, 0, 0, 0 - 1, 0, 10>> }

\* PathObject nodes.
PathNodes ==
    { [ID |-> "p1", Boundary |-> <<10, 20, 100, 50>>, AbbreviatedData |-> data]
        @@ attribute("Fill", fill # "", fill)
        @@ attribute("Stroke", stroke # "", stroke)
        @@ attribute("FillColor", fc # "none",
                     IF fc = "value" THEN [Value |-> <<255, 0, 0>>]
                     ELSE [ColorSpace |-> "cs1"])
        @@ attribute("StrokeColor", sc # "none", [Value |-> <<0, 0, 255>>])
        @@ attribute("LineWidth", lw > 0, lw)
        @@ attribute("CTM", ctm # << >>, ctm) :
        data \in PathDataSamples \cup { << >> },
        fill \in {"", "true", "false"},
        stroke \in {"", "false"},
        fc \in {"none", "value", "novalue"},
        sc \in {"none", "value"},
        lw \in {0, 1, 2},
        ctm \in CtmSamples }

\* TextCode nodes: the text with and without a start point and deltas.
TextCodeNodes ==
    { [text |-> text]
        @@ attribute("X", at, 3) @@ attribute("Y", at, 4)
        @@ attribute("DeltaX", dx # << >>, dx)
        @@ attribute("DeltaY", dy # << >>, dy) :
        text \in { <<"a", "b">>, <<"H", "e", "l", "l", "o">>, <<"a", "U+4E2D", "c">>, <<"a", "&", "l", "t", ";", "b">> },
        at \in BOOLEAN,
        dx \in { << >>, <<"4">>, <<"g", " ", "2", " ", "3", " ", "1">>, <<"2", " ", "3", " ", "4", " ", "5", " ", "6">> },
        dy \in { << >>, <<"1">> } }

\* TextObject nodes of one text code.
TextNodes ==
    { [ID |-> "t1", Boundary |-> <<10, 20, 100, 30>>, Font |-> "f1",
       Size |-> size, TextCode |-> << tc >>]
        @@ attribute("CTM", ctm # << >>, ctm) :
        size \in {5, 10}, tc \in TextCodeNodes, ctm \in CtmSamples }

\* Fonts: one that draws every glyph, one that cannot encode a CJK glyph.
FontSamples == { [missing |-> {}], [missing |-> {"U+4E2D"}] }

PageHeights == {297}

\* Arcs from the origin: circles, and ellipses that are not rotated, of
\* radii up to 3 (0 for a degenerate arc), to end points on and off the
\* axes, the start point among them.
ArcRadii == 0..3
ArcEnds == { <<2, 0>>, <<1, 1>>, <<0, 3>>, <<0 - 3, 0 - 1>>, <<0, 0>> }
ArcInputs ==
    { in \in { [x0 |-> 0, y0 |-> 0, rx |-> rx, ry |-> ry, angle |-> angle,
                largeArcFlag |-> large, sweepFlag |-> sweep,
                x |-> end[1], y |-> end[2]] :
                 rx \in ArcRadii, ry \in ArcRadii, angle \in {0, 30},
                 large \in BOOLEAN, sweep \in BOOLEAN, end \in ArcEnds } :
        in.rx = in.ry \/ in.angle = 0 }

\* The image objects of the pages of the documents of three archives, each
\* with its archive.
ImageArchives == {"full", "gap", "root"}
ImageCalls ==
    UNION { LET parsed == parseOfdXml(Archive(id)).doc
            IN  UNION { { [archive |-> id, obj |-> pageObjects(parsed.pages[p])[k]] :
                            k \in { j \in 1..Len(pageObjects(parsed.pages[p])) :
                                      pageObjects(parsed.pages[p])[j].type
                                          = "image" } } :
                        p \in 1..Len(parsed.pages) } :
            id \in ImageArchives }

\* A call that has not run yet; running is a call in a loop of no end.
Call(fn, in) ==
    [fn |-> fn, in |-> in, running |-> FALSE, done |-> FALSE, out |-> << >>]

FunctionsInit ==
    /\ ProcessInit
    /\ fontkitInstalled = FALSE
    /\ systemFonts = "none"
    /\ \/ \E data \in PathDataInputs :
             unit = Call("parseAbbreviatedData", [data |-> data])
       \/ \E deltaStr \in DeltaInputs :
             unit = Call("parseDeltaValues", [deltaStr |-> deltaStr])
       \/ \E node \in PathNodes, pageHeight \in PageHeights :
             unit = Call("renderPathObject",
                         [node |-> node, pageHeight |-> pageHeight])
       \/ \E in \in ArcInputs : unit = Call("arcToBeziers", in)
       \/ \E in \in ImageCalls : unit = Call("renderImageObject", in)
       \/ \E node \in TextNodes, font \in FontSamples,
             pageHeight \in PageHeights :
             unit = Call("renderTextObject",
                         [node |-> node, font |-> font,
                          pageHeight |-> pageHeight])

\* parseAbbreviatedData(data)
ParseAbbreviatedData ==
    /\ unit.fn = "parseAbbreviatedData"
    /\ ~unit.done
    /\ unit' = [unit EXCEPT !.done = TRUE,
                            !.out = parseAbbreviatedData(unit.in.data)]
    /\ UNCHANGED programVars

\* parseDeltaValues(deltaStr): it returns the list, or it stays in the for
\* loop of a run.
ParseDeltaValues ==
    /\ unit.fn = "parseDeltaValues"
    /\ ~unit.done /\ ~unit.running
    /\ unit' = IF unit.in.deltaStr = << >>
                  \/ parseDeltaValues_ends(splitSpaces(trim(unit.in.deltaStr)),
                                           0)
               THEN [unit EXCEPT !.done = TRUE,
                                 !.out = parseDeltaValues(unit.in.deltaStr)]
               ELSE [unit EXCEPT !.running = TRUE]
    /\ UNCHANGED programVars

\* arcToBeziers(x0, y0, rx, ry, angle, largeArcFlag, sweepFlag, x, y)
ArcToBeziers ==
    /\ unit.fn = "arcToBeziers"
    /\ ~unit.done
    /\ unit' = [unit EXCEPT
                  !.done = TRUE,
                  !.out = arcToBeziers(unit.in.x0, unit.in.y0, unit.in.rx,
                                       unit.in.ry, unit.in.angle,
                                       unit.in.largeArcFlag,
                                       unit.in.sweepFlag,
                                       unit.in.x, unit.in.y)]
    /\ UNCHANGED programVars

\* parseOfdXml of the archive, then renderImageObject on an empty page.
RenderImageObject ==
    /\ unit.fn = "renderImageObject"
    /\ ~unit.done
    /\ unit' = [unit EXCEPT
                  !.done = TRUE,
                  !.out = renderImageObject(
                              unit.in.obj,
                              parseOfdXml(Archive(unit.in.archive)).doc.images,
                              Archive(unit.in.archive)).ops]
    /\ UNCHANGED programVars

\* parsePathObject of the node, then renderPathObject on an empty page.
RenderPathObject ==
    /\ unit.fn = "renderPathObject"
    /\ ~unit.done
    /\ unit' = [unit EXCEPT !.done = TRUE,
                            !.out = pathOperators(parsePathObject(unit.in.node),
                                                  unit.in.pageHeight)]
    /\ UNCHANGED programVars

\* parseTextObject of the node, then renderTextObject on an empty page.
RenderTextObject ==
    /\ unit.fn = "renderTextObject"
    /\ ~unit.done
    /\ unit' = [unit EXCEPT !.done = TRUE,
                            !.out = textOperators(parseTextObject(unit.in.node),
                                                  unit.in.font,
                                                  unit.in.pageHeight)]
    /\ UNCHANGED programVars

FunctionsNext ==
    \/ ParseAbbreviatedData
    \/ ParseDeltaValues
    \/ ArcToBeziers
    \/ RenderImageObject
    \/ RenderPathObject
    \/ RenderTextObject

Functions == FunctionsInit /\ [][FunctionsNext]_vars

\* ------------------------------------------------------------ properties

\* Facts about the input archives, read off the archive itself.

\* Some entry of the archive is named OFD.xml, in whatever directory and
\* letter case.
hasEntryDescriptor(a) ==
    \E i \in 1..Len(a) : endsWith(toLowerCase(a[i].path), <<"o", "f", "d", ".", "x", "m", "l">>)

\* The file some entry descriptor names as DocRoot is in the archive.
hasDocumentDescriptor(a) ==
    \E i, j \in 1..Len(a) :
        /\ Has(a[i].data, "DocBody")
        /\ toLowerCase(a[j].path) = toLowerCase(a[i].data.DocBody.DocRoot)

LacksDescriptor ==
    [id \in ArchiveIds |->
        ~hasEntryDescriptor(Archive(id)) \/ ~hasDocumentDescriptor(Archive(id))]

\* The positions, counted from 0, of the page references of the document
\* descriptor whose content file is not in the archive or is empty.
unreadableRefs(a) ==
    LET docs == {i \in 1..Len(a) : Has(a[i].data, "Pages")}
        docPath == a[Min(docs)].path
        refs == a[Min(docs)].data.Pages
        target(r) == toLowerCase(resolvePath(docPath, r.BaseLoc))
    IN  {i - 1 : i \in
            {k \in 1..Len(refs) :
                \A j \in 1..Len(a) :
                    toLowerCase(a[j].path) = target(refs[k])
                        => a[j].data.kind = "empty"}}

UnreadableRefs ==
    [id \in ArchiveIds |->
        IF LacksDescriptor[id] THEN {} ELSE unreadableRefs(Archive(id))]

\* C1: for any archive in which the entry descriptor (OFD.xml) cannot be
\* located, or whose document descriptor (the file the entry names as
\* DocRoot) is absent, the call fails with an error and returns no
\* Document, partial or otherwise.
C1_MissingDescriptorFails ==
    (pc = "settled" /\ input \in ArchiveIds /\ LacksDescriptor[input])
        => /\ result.state = "rejected"
           /\ result.kind = "error"
           /\ doc = NoDocument

\* parse has settled on an archive that has an entry descriptor but not the
\* document descriptor it names.
C1_Witness ==
    /\ pc = "settled"
    /\ api = "parse"
    /\ input \in ArchiveIds
    /\ hasEntryDescriptor(Archive(input))
    /\ ~hasDocumentDescriptor(Archive(input))
    /\ result.state = "rejected"

\* C4 as stated: for every page reference whose content file is missing or
\* unreadable, parse succeeds and the Document has a page for that
\* reference with an empty layer list.
C4_UnreadablePageKeptEmpty ==
    (pc = "settled" /\ api = "parse" /\ input \in ArchiveIds
        /\ ~LacksDescriptor[input])
        => \A r \in UnreadableRefs[input] :
              /\ result.state = "resolved"
              /\ \E k \in 1..Len(result.doc.pages) :
                    /\ result.doc.pages[k].index = r
                    /\ result.doc.pages[k].layers = << >>

\* C4 as the parser behaves: for every page reference whose content file is
\* missing or unreadable, parse succeeds and the Document has no page for
\* that reference; the readable references keep their pages, in reference
\* order, each carrying the position of its reference as index.
C4_UnreadablePageDropped ==
    (pc = "settled" /\ api = "parse" /\ input \in ArchiveIds
        /\ ~LacksDescriptor[input])
        => /\ result.state = "resolved"
           /\ \A k \in 1..Len(result.doc.pages) :
                 /\ result.doc.pages[k].index \notin UnreadableRefs[input]
                 /\ k > 1 => result.doc.pages[k - 1].index
                                < result.doc.pages[k].index
           /\ \A r \in UnreadableRefs[input] :
                 \A k \in 1..Len(result.doc.pages) :
                     result.doc.pages[k].index # r

\* parse has settled on a document with unreadable page references and with
\* a readable reference after them.
C4_Witness ==
    /\ pc = "settled"
    /\ api = "parse"
    /\ input \in ArchiveIds
    /\ ~LacksDescriptor[input]
    /\ UnreadableRefs[input] # {}
    /\ result.state = "resolved"
    /\ \E k \in 1..Len(result.doc.pages) :
          \A r \in UnreadableRefs[input] : result.doc.pages[k].index > r

\* The ids of a sequence of objects.
idsOf(objects) == [i \in 1..Len(objects) |-> objects[i].id]

\* The ids of the objects of the first n pages, in list order.
RECURSIVE idsOfPages(_, _)
idsOfPages(pages, n) ==
    IF n = 0 THEN << >>
    ELSE idsOfPages(pages, n - 1) \o idsOf(pageObjects(pages[n]))

\* The pass over the pages is under way or has just ended.
inPass == pc \in {"page", "objects", "save", "safePage", "safeObjects", "safeSave"}
passEnded == pc \in {"save", "safeSave"}

\* Every operation on the pages draws with a built-in font.
onlyBuiltInFonts(pages) ==
    \A p \in 1..Len(pages) :
        \A k \in 1..Len(pages[p].ops) :
            pages[p].ops[k].font.kind \in {"none", "standard", "default"}

\* C2: when the final serialization of the rendered output fails, the
\* render call does not fail: it rebuilds the whole output from the same
\* Document using only built-in fonts, serializes that, and returns the
\* result.  (A failure of the second serialization is left aside: that one
\* is fatal.)
C2_SaveFailureFallsBack ==
    (/\ pc = "settled"
     /\ api = "convert"
     /\ saveOutcome \in {"reject", "throw"}
     /\ safeSaveOutcome # "failed")
        => /\ result.state = "resolved"
           /\ safeSaveOutcome = "ok"
           /\ pdfBytes.kind = "pdf"
           /\ Len(pdfBytes.pages) = Len(doc.pages)
           /\ onlyBuiltInFonts(pdfBytes.pages)

\* C3: a failure while drawing one object is caught and discarded: every
\* later object of the same layer, every later layer and every later page
\* is still dispatched in list order, and the render call does not fail
\* because of that object.
C3_FailureDoesNotStopDispatch ==
    inPass
        => /\ result = Pending
           /\ \A i \in 1..Len(failed) :
                 \E k \in 1..Len(dispatched) : dispatched[k] = failed[i]
           /\ pc \in {"page", "safePage"}
                 => dispatched = idsOfPages(doc.pages, pi)
           /\ pc \in {"objects", "safeObjects"}
                 => /\ dispatched
                        = idsOfPages(doc.pages, pi - 1)
                            \o SubSeq(idsOf(pageObjects(doc.pages[pi])), 1,
                                      Len(dispatched)
                                        - Len(idsOfPages(doc.pages, pi - 1)))
                    /\ oi = Len(dispatched) - Len(idsOfPages(doc.pages, pi - 1))
           /\ passEnded
                 => dispatched = idsOfPages(doc.pages, Len(doc.pages))

\* The first pass over a document of several pages has ended, the first
\* object dispatched failed, and objects of the same page and of later pages
\* were dispatched after it.
C3_Witness ==
    /\ pc = "save"
    /\ Len(doc.pages) > 1
    /\ Len(failed) > 0
    /\ Len(dispatched) > Len(pageObjects(doc.pages[1]))
    /\ Len(pageObjects(doc.pages[1])) > 1
    /\ dispatched[1] = failed[1]

\* The options object the caller supplied, whichever argument carries it.
suppliedOptions(args) ==
    IF args[1].t = "object" THEN args[1].v
    ELSE IF args[2].t = "object" THEN args[2].v
    ELSE EmptyOptions

\* C5: convert called with an output path writes the PDF bytes to that path
\* and resolves with no value; convert called without an output path writes
\* no file and resolves with the PDF bytes; in both call forms the options
\* object supplied by the caller is the one used for rendering.
C5_OutputFormAndOptions ==
    (api = "convert" /\ pc # "idle")
        => /\ options = suppliedOptions(arguments)
           /\ (pc = "settled" /\ result.state = "resolved")
                 => IF arguments[1].t = "string" /\ arguments[1].v # ""
                    THEN /\ result = ResolvedVoid
                         /\ written = << [path |-> arguments[1].v,
                                          bytes |-> pdfBytes] >>
                    ELSE /\ result = ResolvedBytes(pdfBytes)
                         /\ written = << >>

\* C6: in every render call whose options name a font directory that
\* contains a usable outline font, after any sequence of earlier render
\* calls in the same process, the CJK fallback font is the one loaded from
\* that call's directory (a known file name first, else the first .ttf or
\* .otf file); the system font search is used only when the directory
\* yields no font.
C6_FontDirFontIsUsed ==
    (pc = "fonts" /\ hasFontkit /\ options.fontDir # "")
        => LET own == fontDirBytes(systemFonts, options.fontDir)
           IN  own # Null => cjkBytes = own

\* The font table has one entry per font of the Document, in table order.
oneFontEach ==
    /\ Len(fontCache) = Len(doc.fonts)
    /\ \A i \in 1..Len(fontCache) :
          /\ fontCache[i].id = doc.fonts[i].id
          /\ fontCache[i].font # NoFont

templateObjects(a, templateId) ==
    LET docs == {i \in 1..Len(a) : Has(a[i].data, "TemplatePages")}
        docPath == a[Min(docs)].path
        templates == a[Min(docs)].data.TemplatePages
        hits == {k \in 1..Len(templates) : templates[k].ID = templateId}
        content == readTextFile(a, resolvePath(docPath,
                                               templates[Min(hits)].BaseLoc))
    IN  IF docs = {} \/ hits = {} \/ ~Truthy(content) THEN << >>
        ELSE pageObjects(parsePage(content, templateId, 0, parseBox(<< >>)))

\* C8: when a page carries a template reference, the rendered output page
\* contains the referenced template page's content, drawn beneath (before)
\* the page's own content.
C8_TemplateContentBeneath ==
    (pc = "save" /\ failed = << >>)
        => \A p \in 1..Len(doc.pages) :
              doc.pages[p].templateId # ""
                 => LET under == idsOf(templateObjects(callArchive,
                                                       doc.pages[p].templateId))
                        own == idsOf(pageObjects(doc.pages[p]))
                        ops == pdfPages[p].ops
                    IN  \A t \in 1..Len(under) :
                           \E k \in 1..Len(ops) :
                              /\ ops[k].obj = under[t]
                              /\ \A m \in 1..Len(ops) :
                                    (\E o \in 1..Len(own) : ops[m].obj = own[o])
                                       => k < m

\* C9: when the watermark option is true, every page of the output
\* returned by render carries the fixed branding annotation, drawn after
\* that page's objects; when the option is false or absent, no page
\* carries it.
C9_WatermarkOnEveryPage ==
    (pc = "deliver" /\ api = "convert")
        => /\ Len(pdfBytes.pages) = Len(doc.pages)
           /\ \A p \in 1..Len(pdfBytes.pages) :
                 LET ops == pdfBytes.pages[p].ops
                 IN  IF options.watermark
                     THEN /\ Len(ops) > 0
                          /\ ops[Len(ops)] = WatermarkOp
                          /\ \A k \in 1..(Len(ops) - 1) : ops[k].op # "watermark"
                     ELSE \A k \in 1..Len(ops) : ops[k].op # "watermark"

\* The bytes of an image resource are not in the archive.
bytesMissing(a, imageResource) ==
    \A j \in 1..Len(a) :
        toLowerCase(a[j].path) # toLowerCase(normalizeSlashes(imageResource.path))

\* An image object that names no resource of the table, or one without bytes.
unresolvedImage(obj) ==
    /\ obj.type = "image"
    /\ \/ ~mapHas(doc.images, obj.resourceId)
       \/ bytesMissing(callArchive, mapGet(doc.images, obj.resourceId))

\* A text object whose font id is not in the font table.
unknownFontText(obj) ==
    obj.type = "text" /\ ~mapHas(doc.fonts, obj.font)

\* C10: a text object whose font id is not in the Document's font table is
\* drawn with the default built-in font, and an image object whose
\* resource id is not in the image table (or whose bytes are not in the
\* archive) is skipped; in neither case does the render call fail or skip
\* any other object.
C10_MissingResources ==
    passEnded
        => /\ result = Pending
           /\ Len(pdfPages) = Len(doc.pages)
           /\ \A p \in 1..Len(doc.pages) :
                 LET objects == pageObjects(doc.pages[p])
                     ops == pdfPages[p].ops
                     drawnAs(obj, kind) ==
                         \E k \in 1..Len(ops) :
                            ops[k].obj = obj.id /\ ops[k].op = kind
                     threw(obj) ==
                         \E i \in 1..Len(failed) : failed[i] = obj.id
                 IN  \A o \in 1..Len(objects) :
                        LET obj == objects[o]
                        IN  /\ (unknownFontText(obj) /\ ~threw(obj) /\ obj.n > 0)
                                  => \E k \in 1..Len(ops) :
                                        ops[k] = TextOp(obj, DefaultFont, obj.n)
                            /\ unresolvedImage(obj)
                                  => \A k \in 1..Len(ops) : ops[k].obj # obj.id
                            /\ (~unresolvedImage(obj) /\ ~threw(obj)
                                   /\ (obj.type = "image" \/ obj.n > 0))
                                  => drawnAs(obj, obj.type)

\* A pass has ended without a failing draw call over a page that holds a
\* text object with an unknown font id, drawn with the default font, an
\* image object with an unknown resource id, and one without bytes.
C10_Witness ==
    /\ pc = "save"
    /\ failed = << >>
    /\ \E p \in 1..Len(doc.pages) :
          LET objects == pageObjects(doc.pages[p])
          IN  /\ \E o \in 1..Len(objects) :
                    /\ unknownFontText(objects[o])
                    /\ \E k \in 1..Len(pdfPages[p].ops) :
                          pdfPages[p].ops[k]
                             = TextOp(objects[o], DefaultFont, objects[o].n)
              /\ \E o \in 1..Len(objects) :
                    /\ objects[o].type = "image"
                    /\ ~mapHas(doc.images, objects[o].resourceId)
              /\ \E o \in 1..Len(objects) :
                    /\ objects[o].type = "image"
                    /\ mapHas(doc.images, objects[o].resourceId)
                    /\ unresolvedImage(objects[o])

\* ------------------------------------------------------------------- C11

\* The call of the function fn has returned.
returned(fn) == unit.fn = fn /\ unit.done

\* The coordinate the rule gives for the local point (x, y) of a node: the
\* transform first, the boundary offset second, the vertical flip last.
ruledPoint(x, y, node, pageHeight) ==
    LET m == Field(node, "CTM", << >>)
        bx == node.Boundary[1]
        by == node.Boundary[2]
        tx == IF Len(m) >= 6 THEN m[1] * x + m[3] * y + m[5] ELSE x
        ty == IF Len(m) >= 6 THEN m[2] * x + m[4] * y + m[6] ELSE y
    IN  << (bx + tx) * MM_TO_PT, (pageHeight - by - ty) * MM_TO_PT >>

\* The operators of a path that come from its commands.
commandOperators(ops) ==
    SelectSeq(ops, LAMBDA o : o.op \in {"moveTo", "lineTo", "appendBezierCurve",
                                        "closePath"})

\* A curve of an arc, among the operators.
isArcCurve(o) == o.op = "appendBezierCurve" /\ Len(o.args) = 1

\* The place among the operators ops of the first operator of the command
\* k: a command has one operator, an arc has its curves or one line.
RECURSIVE commandStart(_, _, _)
commandStart(cmds, ops, k) ==
    IF k = 1 THEN 1
    ELSE LET p == commandStart(cmds, ops, k - 1)
         IN  IF cmds[k - 1].type = "A" /\ p <= Len(ops) /\ isArcCurve(ops[p])
             THEN p + ops[p].args[1].segments
             ELSE p + 1

\* Every point of a MoveTo, LineTo and CubicTo command of the path drawn is
\* emitted at the coordinate of the rule.
pathPointsRuled ==
    returned("renderPathObject")
        => LET node == unit.in.node
               H == unit.in.pageHeight
               cmds == parseAbbreviatedData(Field(node, "AbbreviatedData", << >>))
               ops == commandOperators(unit.out)
               at(k) == commandStart(cmds, ops, k)
               pt(x, y) == ruledPoint(x.v, y.v, node, H)
           IN  /\ at(Len(cmds) + 1) = Len(ops) + 1
               /\ \A k \in 1..Len(cmds) :
                     /\ cmds[k].type \in {"M", "L"}
                           => ops[at(k)].args = pt(cmds[k].x, cmds[k].y)
                     /\ cmds[k].type = "B"
                           => ops[at(k)].args = pt(cmds[k].x1, cmds[k].y1)
                                                  \o pt(cmds[k].x2, cmds[k].y2)
                                                  \o pt(cmds[k].x, cmds[k].y)

\* The start point of the text run drawn, by the rule, and the font size.
runStart ==
    LET tc == unit.in.node.TextCode[1]
    IN  ruledPoint(Field(tc, "X", 0), Field(tc, "Y", 0), unit.in.node,
                   unit.in.pageHeight)
runFontSize ==
    LET m == Field(unit.in.node, "CTM", << >>)
        scale == IF Len(m) >= 6 THEN sqrt(m[2] * m[2] + m[4] * m[4]) ELSE 0
    IN  unit.in.node.Size * MM_TO_PT * (IF scale > 0 THEN scale ELSE 1)

\* C11 as stated: every point of a MoveTo, LineTo or CubicTo command and
\* every text run start point is emitted at ((bx + x') * k, (H - by - y') * k),
\* (x', y') the transformed point (the point itself without a transform):
\* transform first, boundary offset second, vertical flip last.
C11_CoordinateRule ==
    /\ pathPointsRuled
    /\ (returned("renderTextObject") /\ Len(unit.out) > 0)
          => << unit.out[1].x, unit.out[1].y >> = runStart

\* C11 as the code has it: the points of MoveTo, LineTo and CubicTo commands
\* are emitted at the coordinate of the rule; a text run is drawn at the x of
\* the rule and at the y of the rule less the font size in output units
\* (size * k, times sqrt(b^2 + d^2) of the transform when that is positive).
C11_CoordinateRuleBaseline ==
    /\ pathPointsRuled
    /\ (returned("renderTextObject") /\ Len(unit.out) > 0)
          => /\ unit.out[1].x = runStart[1]
             /\ unit.out[1].y = runStart[2] - runFontSize
             /\ unit.out[1].size = runFontSize

\* A text run with a start point of its own was drawn under a rotation
\* scaled by 5.
C11_Witness ==
    /\ returned("renderTextObject")
    /\ Len(unit.out) > 0
    /\ Has(unit.in.node, "CTM")
    /\ unit.in.node.CTM = <<3, 0 - 4, 4, 3, 0, 0>>
    /\ Has(unit.in.node.TextCode[1], "X")
    /\ unit.out[1].y = runStart[2] - 5 * unit.in.node.Size * MM_TO_PT

\* ------------------------------------------------------------------- C12

\* The operators of the given name among those of a call.
operatorsNamed(ops, names) == SelectSeq(ops, LAMBDA o : o.op \in names)

\* C12: a path of line width w under a transform with coefficients a and c
\* is stroked with the width w * sqrt(a^2 + c^2) (in output units), for
\* every a and c, a = 0 included: width 1 with a = 2, c = 0 gives 2, and
\* width 1 with a = 0, c = 3 gives 3.
C12_StrokeWidthScaling ==
    (/\ returned("renderPathObject")
     /\ Len(unit.out) > 0
     /\ Has(unit.in.node, "LineWidth")
     /\ Len(Field(unit.in.node, "CTM", << >>)) >= 6)
        => LET w == unit.in.node.LineWidth
               a == unit.in.node.CTM[1]
               c == unit.in.node.CTM[3]
           IN  operatorsNamed(unit.out, {"setLineWidth"})
                  = << Operator("setLineWidth",
                                << w * MM_TO_PT * sqrt(a * a + c * c) >>) >>

\* ------------------------------------------------------------------- C13

\* A node carries a colour child that has a colour value.
hasColour(node, name) == Has(node, name) /\ Has(node[name], "Value")

\* C13: a path object emits a fill operation only when a fill colour is
\* present and a stroke operation only when a stroke colour is present: an
\* absent fill colour leaves no fill, an absent stroke colour no stroke.
C13_PaintOnlyWithColour ==
    returned("renderPathObject")
        => /\ operatorsNamed(unit.out, {"fill", "fillAndStroke"}) # << >>
                 => hasColour(unit.in.node, "FillColor")
           /\ operatorsNamed(unit.out, {"stroke", "fillAndStroke"}) # << >>
                 => hasColour(unit.in.node, "StrokeColor")

\* ------------------------------------------------- layers, paths, failures

\* The content file behind the page reference at position index (from 0) of
\* the document descriptor of archive a, and its layer nodes.
pageContent(a, index) ==
    LET docs == {i \in 1..Len(a) : Has(a[i].data, "Pages")}
        docPath == a[Min(docs)].path
        ref == a[Min(docs)].data.Pages[index + 1]
    IN  readTextFile(a, resolvePath(docPath, ref.BaseLoc))

contentLayers(pageXml) ==
    IF Len(Field(pageXml, "Content", << >>)) > 0 THEN pageXml.Content
    ELSE Field(pageXml, "Layer", << >>)

\* The ids of the drawable objects under a layer node, in the order in
\* which the markup holds them, a container block standing for its own
\* children.
RECURSIVE encounterIds(_)
encounterIds(kids) ==
    IF Len(kids) = 0 THEN << >>
    ELSE (IF kids[1].tag = "PageBlock" THEN encounterIds(kids[1].kids)
          ELSE << kids[1].ID >>)
         \o encounterIds(Tail(kids))

\* C14: for every layer of a parsed page, the object list holds the layer's
\* text, path and image objects and the descendants of its container blocks
\* in the order in which the page content holds them, and a render pass
\* that has reached serialization has dispatched the objects in list order.
C14_EncounterOrder ==
    (pc # "idle" /\ input \in ArchiveIds /\ Len(doc.pages) > 0)
        => /\ \A k \in 1..Len(doc.pages) :
                LET nodes == contentLayers(
                                 pageContent(callArchive, doc.pages[k].index))
                IN  \A l \in 1..Len(doc.pages[k].layers) :
                        idsOf(doc.pages[k].layers[l].objects)
                            = encounterIds(nodes[l].kids)
           /\ passEnded => dispatched = idsOfPages(doc.pages, Len(doc.pages))

\* The resource manifests of an archive, and a reference resolved against
\* the directory of the descriptor that holds it.
manifests(a) ==
    {i \in 1..Len(a) : Has(a[i].data, "Fonts") \/ Has(a[i].data, "MultiMedias")}

resolvedAgainst(descriptorPath, ref) ==
    LET dir == IF includes(descriptorPath, <<"/">>)
               THEN SubSeq(descriptorPath, 1,
                           lastIndexOf(descriptorPath, "/") - 1)
               ELSE << >>
    IN  join(resolvePath_collapse(split(dir, "/") \o split(ref, "/")), "/")

dotFree(path) ==
    \A k \in 1..Len(split(path, "/")) :
        split(path, "/")[k] \notin { <<".">>, <<".", ".">> }

\* C15: every font file path and image file path of a parsed Document is
\* the reference of the manifest that declares the resource, resolved
\* against the directory of that manifest, and holds no '.' or '..'
\* segment.
C15_PathsResolved ==
    (pc = "settled" /\ api = "parse" /\ result.state = "resolved")
        => /\ \A i \in 1..Len(result.doc.fonts) :
                LET f == result.doc.fonts[i]
                IN  f.fontFile # << >>
                        => /\ dotFree(f.fontFile)
                           /\ \E m \in manifests(callArchive) :
                                LET man == callArchive[m]
                                    nodes == Field(man.data, "Fonts", << >>)
                                IN  \E n \in 1..Len(nodes) :
                                        /\ nodes[n].ID = f.id
                                        /\ Has(nodes[n], "FontFile")
                                        /\ f.fontFile
                                             = resolvedAgainst(man.path,
                                                   nodes[n].FontFile)
           /\ \A i \in 1..Len(result.doc.images) :
                LET im == result.doc.images[i]
                IN  /\ dotFree(im.path)
                    /\ \E m \in manifests(callArchive) :
                         LET man == callArchive[m]
                             nodes == Field(man.data, "MultiMedias", << >>)
                         IN  \E n \in 1..Len(nodes) :
                                 /\ nodes[n].ID = im.id
                                 /\ im.path = resolvedAgainst(man.path,
                                                  nodes[n].MediaFile)

\* C16: in a render pass that has reached serialization, no operation on a
\* page belongs to an object whose draw call threw: the pages hold the
\* operations of the objects that were drawn completely and nothing else.
C16_NoPartialOutput ==
    passEnded
        => \A p \in 1..Len(pdfPages) :
              \A k \in 1..Len(pdfPages[p].ops) :
                  \A j \in 1..Len(failed) :
                      pdfPages[p].ops[k].obj # failed[j]

\* ------------------------------------------------------ the render steps

\* The step of the render call the process is in.
renderStep(at, pagesTaken) ==
    CASE at \in {"create", "fonts"} -> "Init"
      [] at = "page" /\ pagesTaken = 0 -> "FontsResolved"
      [] at \in {"page", "objects"} -> "PerPageRender"
      [] at = "save" -> "Finalizing"
      [] at \in {"safeFonts", "safePage", "safeObjects", "safeSave"}
            -> "FallbackRetry"
      [] at \in {"deliver", "settled"} -> "Done"
      [] OTHER -> "NoCall"

\* The steps that may follow one another.  A document without pages goes
\* from Init to Finalizing: the page loop has no turn.
StepOrder ==
    { <<"NoCall", "Init">>, <<"NoCall", "Done">>,
      <<"Init", "Init">>, <<"Init", "FontsResolved">>, <<"Init", "Finalizing">>,
      <<"FontsResolved", "PerPageRender">>,
      <<"PerPageRender", "PerPageRender">>, <<"PerPageRender", "Finalizing">>,
      <<"Finalizing", "Done">>, <<"Finalizing", "FallbackRetry">>,
      <<"FallbackRetry", "FallbackRetry">>, <<"FallbackRetry", "Done">>,
      <<"Done", "Done">>, <<"Done", "NoCall">> }

\* Inside a pass, past the fonts: every font id of the Document is
\* resolved, the output pages are the first pi pages of the Document, the
\* objects dispatched are all objects of the pages before the current one
\* and the first oi of the current one, and serialization is reached with
\* every page taken and every object dispatched.
passOrdered ==
    inPass
        => /\ Len(fontCache) = Len(doc.fonts)
           /\ \A i \in 1..Len(doc.fonts) : fontCache[i].id = doc.fonts[i].id
           /\ Len(pdfPages) = pi
           /\ \A k \in 1..pi : pdfPages[k].source = doc.pages[k].index
           /\ dispatched
                = IF pi = 0 THEN << >>
                  ELSE idsOfPages(doc.pages, pi - 1)
                       \o SubSeq(idsOf(pageObjects(doc.pages[pi])), 1, oi)
           /\ passEnded
                 => /\ pi = Len(doc.pages)
                    /\ dispatched = idsOfPages(doc.pages, pi)

\* The fallback pass starts from a serialization that threw, in a call
\* whose serialization had not thrown before, and the call stays marked.
fallbackOnce ==
    /\ renderStep(pc', pi') = "FallbackRetry" => saveOutcome' = "throw"
    /\ (renderStep(pc', pi') = "FallbackRetry"
            /\ renderStep(pc, pi) # "FallbackRetry")
          => pc = "save" /\ saveOutcome = "none" /\ pc' = "safeFonts"
    /\ (saveOutcome = "throw" /\ pc # "settled") => saveOutcome' = "throw"

\* C17: in every render call the steps follow the order Init,
\* FontsResolved, PerPageRender, Finalizing, then Done or FallbackRetry and
\* Done; every font id is resolved before the first page, the pages are
\* taken in Document order with all objects of a page dispatched before the
\* next page, serialization comes after the last page, and the fallback
\* pass runs at most once in a call.
C17_StepOrder ==
    [][/\ <<renderStep(pc, pi), renderStep(pc', pi')>> \in StepOrder
       /\ passOrdered'
       /\ fallbackOnce]_vars

\* A call of two pages or more went through the fallback pass and is about
\* to deliver what that pass drew.
C17_Witness ==
    /\ pc = "deliver"
    /\ saveOutcome = "throw"
    /\ safeSaveOutcome = "ok"
    /\ Len(pdfBytes.pages) >= 2
    /\ Len(doc.fonts) >= 2

\* --------------------------------------------------- commands and deltas

\* The tokens of a string: its maximal runs of characters that are not
\* white space, from left to right; a string without such a run has one
\* empty token.
wordStarts(s) ==
    {i \in 1..Len(s) : ~isSpace(s[i]) /\ (i = 1 \/ isSpace(s[i - 1]))}
wordFrom(s, i) ==
    SubSeq(s, i, CHOOSE j \in i..Len(s) :
                    /\ \A k \in i..j : ~isSpace(s[k])
                    /\ j = Len(s) \/ isSpace(s[j + 1]))
RECURSIVE wordsFrom(_, _)
wordsFrom(s, starts) ==
    IF starts = {} THEN << >>
    ELSE << wordFrom(s, Min(starts)) >> \o wordsFrom(s, starts \ {Min(starts)})
tokensOf(s) ==
    IF wordStarts(s) = {} THEN << << >> >> ELSE wordsFrom(s, wordStarts(s))

\* The number of tokens a command letter consumes after itself.
operandCount(letter) ==
    CASE letter \in {"M", "L"} -> 2
      [] letter = "B" -> 6
      [] letter = "Q" -> 4
      [] letter = "A" -> 7
      [] OTHER -> 0

isLetter(token) ==
    Len(token) = 1 /\ token[1] \in {"M", "L", "B", "Q", "A", "C", "S"}

\* The positions of the tokens read in command position that are command
\* letters, from position p on: a letter is followed by its operands, any
\* other token is passed over.
RECURSIVE commandPositions(_, _)
commandPositions(tokens, p) ==
    IF p > Len(tokens) THEN << >>
    ELSE IF isLetter(tokens[p])
    THEN << p >> \o commandPositions(tokens, p + 1 + operandCount(tokens[p][1]))
    ELSE commandPositions(tokens, p + 1)

\* The operands of the letter at position p; a token past the end of the
\* list is not a number.
operandsAt(tokens, p) ==
    [k \in 1..operandCount(tokens[p][1]) |->
        IF p + k <= Len(tokens) THEN tokens[p + k] ELSE NoToken]

\* The operands of a command as the parser returned it.
commandOperands(cmd) ==
    CASE cmd.type \in {"M", "L"} -> << cmd.x, cmd.y >>
      [] cmd.type = "B" -> << cmd.x1, cmd.y1, cmd.x2, cmd.y2, cmd.x, cmd.y >>
      [] cmd.type = "Q" -> << cmd.x1, cmd.y1, cmd.x, cmd.y >>
      [] cmd.type = "A" -> << cmd.rx, cmd.ry, cmd.angle, cmd.x, cmd.y >>
      [] OTHER -> << >>

\* C18: parseAbbreviatedData splits the command string on white space and
\* reads it from left to right; each command letter consumes the fixed
\* number of tokens after it (M, L: 2; B: 6; Q: 4; A: 7, of which the
\* fourth and fifth are the flags "0" / "1"; C, S: 0) and yields one
\* command, in that order, with the numbers of those tokens as operands; a
\* token in command position that is no command letter is passed over, and
\* the call returns.
C18_TokenCounts ==
    returned("parseAbbreviatedData")
        => LET tokens == tokensOf(unit.in.data)
               at == commandPositions(tokens, 1)
               out == unit.out
           IN  /\ Len(out) = Len(at)
               /\ \A k \in 1..Len(at) :
                     LET letter == tokens[at[k]][1]
                         given == operandsAt(tokens, at[k])
                         numbers == [j \in 1..Len(given) |-> Number(given[j])]
                     IN  /\ out[k].type = IF letter = "S" THEN "C" ELSE letter
                         /\ letter # "A" => commandOperands(out[k]) = numbers
                         /\ letter = "A"
                               => /\ commandOperands(out[k])
                                       = << numbers[1], numbers[2], numbers[3],
                                            numbers[6], numbers[7] >>
                                  /\ out[k].large = (given[4] = <<"1">>)
                                  /\ out[k].sweep = (given[5] = <<"1">>)

\* A string with a quadratic curve, two arcs and a close letter was read
\* into five commands.
C18_Witness ==
    /\ returned("parseAbbreviatedData")
    /\ Len(tokensOf(unit.in.data)) = 25
    /\ [k \in 1..Len(unit.out) |-> unit.out[k].type]
          = <<"M", "Q", "A", "A", "C">>
    /\ unit.out[3].large /\ ~unit.out[3].sweep
    /\ unit.out[4].sweep /\ ~unit.out[4].large

\* count copies of value; no copy for a count that is not a positive number.
copies(count, value) ==
    [j \in 1..(IF count.nan \/ count.v < 0 THEN 0 ELSE count.v) |-> value]

\* The expansion of a token list: "g count value" stands for count copies
\* of value, any other token for its number.
RECURSIVE expansion(_)
expansion(tokens) ==
    IF Len(tokens) = 0 THEN << >>
    ELSE IF tokens[1] = <<"g">>
    THEN copies(Number(tokenAt(tokens, 1)), Number(tokenAt(tokens, 2)))
            \o expansion(SubSeq(tokens, 4, Len(tokens)))
    ELSE << Number(tokens[1]) >> \o expansion(Tail(tokens))

\* C19: parseDeltaValues returns, for the tokens of its string, the
\* concatenation in token order of count copies of value for every run
\* "g count value" and of the number of every other token; the tokens
\* "g", "3", "10", "5" give 10, 10, 10, 5.
C19_DeltaExpansion ==
    returned("parseDeltaValues")
        => /\ unit.out = IF unit.in.deltaStr = << >> THEN << >>
                         ELSE expansion(tokensOf(unit.in.deltaStr))
           /\ tokensOf(unit.in.deltaStr) = << <<"g">>, <<"3">>, <<"1", "0">>, <<"5">> >>
                 => unit.out = << Num(10), Num(10), Num(10), Num(5) >>

\* The tokens "g", "3", "10", "5" were expanded into four deltas.
C19_Witness ==
    /\ returned("parseDeltaValues")
    /\ unit.in.deltaStr = <<"g", " ", "3", " ", "1", "0", " ", "5">>
    /\ Len(unit.out) = 4
    /\ unit.out[3] = Num(10)
    /\ unit.out[4] = Num(5)

\* ---------------------------------------------------------- the advances

\* Entry min(i, m - 1) of a delta sequence of length m, i counted from 0.
entryFor(deltas, i) ==
    deltas[(IF i < Len(deltas) - 1 THEN i ELSE Len(deltas) - 1) + 1].v

\* C20: for the text run drawn, of n glyphs: with a delta sequence that is
\* not empty, the advance between glyph i and the next (i from 0) is entry
\* min(i, m - 1) of the sequence, horizontally for DeltaX and vertically
\* for DeltaY; without horizontal deltas, the glyphs are 0.6 times the font
\* size apart.
C20_DeltaAdvance ==
    (returned("renderTextObject") /\ Len(unit.out) > 0)
        => LET tc == unit.in.node.TextCode[1]
               dX == expansion(tokensOf(Field(tc, "DeltaX", << " " >>)))
               dY == expansion(tokensOf(Field(tc, "DeltaY", << " " >>)))
               hasX == Has(tc, "DeltaX")
               hasY == Has(tc, "DeltaY")
               n == Len(decodeHtmlEntities(tc.text))
               out == unit.out
           IN  /\ hasX => /\ Len(out) = n
                          /\ \A i \in 0..(n - 2) :
                                out[i + 2].x - out[i + 1].x
                                    = entryFor(dX, i) * MM_TO_PT
               /\ hasY => /\ Len(out) = n
                          /\ \A i \in 0..(n - 2) :
                                out[i + 1].y - out[i + 2].y
                                    = entryFor(dY, i) * MM_TO_PT
               /\ ~hasX => /\ Len(out) = n
                           /\ \A i \in 0..(n - 2) :
                                 out[i + 2].x - out[i + 1].x
                                     = (6 * out[1].size) \div 10

\* ------------------------------------------------- deltas under a transform

\* Math.atan2(-b, d) of the transform m is 0.
atan2Zero(m) == m[2] = 0 /\ m[4] >= 0

\* The delta the claim gives for the raw deltas (dx, dy) under m.
ruledDelta(dx, dy, m) ==
    << IF atan2Zero(m) /\ dx # 0 THEN m[1] * dx + m[3] * 0 + m[5] ELSE dx,
       IF atan2Zero(m) /\ dy # 0 THEN m[2] * 0 + m[4] * dy + m[6] ELSE dy >>

pathCommands ==
    parseAbbreviatedData(Field(unit.in.node, "AbbreviatedData", << >>))
pathCommandOps == commandOperators(unit.out)

\* The point of the output that the command k of the path ends at, by the
\* rule of the coordinates: the end point of a command that has one, the
\* start of the subpath for a close, the origin before the first command.
RECURSIVE pointAfter(_)
pointAfter(k) ==
    IF k = 0 THEN <<0, 0>>
    ELSE IF pathCommands[k].type \in {"M", "L", "B", "Q", "A"}
    THEN ruledPoint(pathCommands[k].x.v, pathCommands[k].y.v, unit.in.node,
                    unit.in.pageHeight)
    ELSE LET moves == {j \in 1..k : pathCommands[j].type = "M"}
         IN  IF moves = {} THEN <<0, 0>>
             ELSE pointAfter(CHOOSE j \in moves : \A i \in moves : i <= j)

sinHalfSpan2 ==
    LET dx == unit.in.x - unit.in.x0
        dy == unit.in.y - unit.in.y0
        a2 == unit.in.rx * unit.in.rx
        b2 == unit.in.ry * unit.in.ry
    IN  [num |-> dx * dx * b2 + dy * dy * a2, den |-> 4 * a2 * b2]

\* ceil(|dTheta| / (pi/2)) of the arc of a call: the smaller angle is at
\* most 90 degrees when the sine of its half is at most that of 45 degrees,
\* and it is 180 degrees when the chord is a diameter or longer; the large
\* arc spans what is left of the full turn.
spanQuarters ==
    LET s == sinHalfSpan2
    IN  IF ~unit.in.largeArcFlag
        THEN (IF 2 * s.num <= s.den THEN 1 ELSE 2)
        ELSE IF s.num >= s.den THEN 2
        ELSE IF 2 * s.num < s.den THEN 4
        ELSE 3

\* The arc of a call has radii that are not zero and two different ends.
spanDefined ==
    /\ unit.in.rx # 0 /\ unit.in.ry # 0
    /\ <<unit.in.x0, unit.in.y0>> # <<unit.in.x, unit.in.y>>

C24_DegenerateArcLine ==
    /\ (returned("arcToBeziers") /\ (unit.in.rx = 0 \/ unit.in.ry = 0))
          => unit.out = << >>
    /\ returned("renderPathObject")
          => \A k \in 1..Len(pathCommands) :
                pathCommands[k].type = "A"
                   => LET cmd == pathCommands[k]
                          p == commandStart(pathCommands, pathCommandOps, k)
                          next == commandStart(pathCommands, pathCommandOps,
                                               k + 1)
                      IN  IF cmd.rx.v = 0 \/ cmd.ry.v = 0
                          THEN /\ next = p + 1
                               /\ pathCommandOps[p]
                                     = Operator("lineTo", pointAfter(k))
                          ELSE \A i \in p..(next - 1) :
                                  isArcCurve(pathCommandOps[i])
\* ------------------------------------------------------------------- C29

\* The fields of a path command that hold a number.
numberFields(cmd) == DOMAIN cmd \ {"type", "large", "sweep"}

\* C29: for every command string, every command emitted by the path
\* interpreter has all of its coordinate fields defined as numbers read from
\* tokens of the input: none is NaN, as a field read beyond the end of the
\* tokens or from a token that is not a numeral is.
C29_FieldsAreNumbers ==
    returned("parseAbbreviatedData")
        => \A k \in 1..Len(unit.out) :
              \A f \in numberFields(unit.out[k]) : ~unit.out[k][f].nan
\* ------------------------------------------------------------------- C30

\* The places of the operators of the path drawn that construct the path,
\* that paint it, and that restore the graphics state.
constructionAt ==
    {i \in 1..Len(unit.out) :
        unit.out[i].op \in {"moveTo", "lineTo", "appendBezierCurve",
                            "closePath"}}
paintingAt ==
    {i \in 1..Len(unit.out) :
        unit.out[i].op \in {"fill", "stroke", "fillAndStroke"}}
restoreAt == {i \in 1..Len(unit.out) : unit.out[i].op = "popGraphicsState"}

\* C30: a path object appends path construction operators to the page only
\* together with exactly one painting operator (fill, stroke or
\* fill-and-stroke) placed after them and before the restore of the graphics
\* state; a path of which neither fill nor stroke is painted appends no
\* path construction operators.
C30_ConstructionIsPainted ==
    (returned("renderPathObject") /\ constructionAt # {})
        => /\ Cardinality(paintingAt) = 1
           /\ \A p \in paintingAt :
                 /\ \A c \in constructionAt : c < p
                 /\ \E r \in restoreAt : p < r
\* ------------------------------------------------------------------- C28

\* C28: delta expansion terminates with a finite list for every token
\* sequence, a run "g count value" whose count is missing, not a numeral,
\* negative or not finite included: no call of parseDeltaValues is left in
\* a loop that has no end, which is where a call that does not return
\* stays.
C28_DeltaExpansionTerminates ==
    unit.fn = "parseDeltaValues" => ~unit.running
\* ------------------------------------------------------------------- C25

\* C25: the system CJK font search scans the filesystem at most once per
\* process: until a search has completed no scan was made and a step makes
\* at most one, which completes the search; after the first search has
\* completed, whether it found a font or found none, no step scans again
\* and every later search returns the result of the first.
C25_ScanOnce ==
    [][IF cachedCJKFontPath.state = "null"
       THEN /\ fontScans = 0
            /\ fontScans' <= 1
            /\ (fontScans' = 1) <=> (cachedCJKFontPath'.state # "null")
       ELSE /\ fontScans' = fontScans
            /\ cachedCJKFontPath' = cachedCJKFontPath]_vars

\* A render call that was not the first to have fontkit asked for the CJK
\* font, no earlier call had found one, and the search that found none was
\* not repeated.
C25_Witness ==
    /\ pc = "fonts"
    /\ hasFontkit /\ ~docFontkit
    /\ cachedCJKFontBytes = Null
    /\ cachedCJKFontPath = PathUndefined
    /\ fontScans = 1

\* ------------------------------------------------------------------- C26

\* The fonts of the document in a file of the archive that the font loop
\* hands to pdfDoc.embedFont.
embeddedFileFonts ==
    {i \in 1..Len(doc.fonts) :
        LET file == doc.fonts[i].fontFile
            bytes == readBinaryFile(callArchive, file)
        IN  /\ file # << >>
            /\ extensionOf(toLowerCase(file)) \in SupportedFontExtensions
            /\ bytes # Null
            /\ Field(bytes, "length", 0) > MinFontBytes}

\* C26: in every render call of a process, the first and every later one,
\* whenever the call reports fontkit as available and hands the bytes of a
\* CJK font or of an embedded font file to the document to embed, fontkit
\* has been registered on the output document that call created.
C26_FontkitOnDocument ==
    (pc \in {"fonts", "page", "objects", "save"} /\ hasFontkit)
        => /\ cjkBytes # Null => docFontkit
           /\ (pc # "fonts" /\ embeddedFileFonts # {}) => docFontkit
\* ------------------------------------------------------------------- C27

\* The directory of the document descriptor that the entry descriptor of an
\* archive names, and a file path relative to it.
documentDirectory(a) ==
    LET docRoot == a[CHOOSE i \in 1..Len(a) : Has(a[i].data, "DocBody")]
                      .data.DocBody.DocRoot
    IN  IF includes(docRoot, <<"/">>)
        THEN SubSeq(docRoot, 1, lastIndexOf(docRoot, "/") - 1)
        ELSE << >>
inDocumentDirectory(a, file) ==
    IF documentDirectory(a) = << >> THEN file
    ELSE documentDirectory(a) \o <<"/">> \o file

\* The media files that the manifests of an archive declare for a resource.
mediaFiles(a, id) ==
    UNION { { Field(a[m].data, "MultiMedias", << >>)[n].MediaFile :
                n \in { k \in 1..Len(Field(a[m].data, "MultiMedias", << >>)) :
                          Field(a[m].data, "MultiMedias", << >>)[k].ID = id } } :
            m \in manifests(a) }

\* C27: for every image resource whose media file is in the archive at the
\* path of the manifest relative to the directory of the document
\* descriptor, the path stored in the Document is found by the lookup of
\* the draw call, also when the descriptor lies at the root of the archive:
\* the image, which its codec reads, is drawn.
C27_StoredImagePathFound ==
    returned("renderImageObject")
        => LET a == Archive(unit.in.archive)
           IN  (\E file \in mediaFiles(a, unit.in.obj.resourceId) :
                    archiveHas(a, inDocumentDirectory(a, file)))
                  => Len(unit.out) = 1
====
